---- MODULE Spec2Model ----
(***************************************************************************)
(* Model of the record/index synchronisation layer of dbdicom              *)
(* (src/src/dbdicom/classes/record.py).  The state is the folder's         *)
(* dataframe (one row per instance file, in insertion order), the set of   *)
(* files on disk with the dataset each holds, and the two generators of   *)
(* fresh identifiers.  One action                                          *)
(* per public operation of Record.  History variables keep the last call   *)
(* and the state it started from, so that the effect of a call can be      *)
(* stated as a state predicate.                                            *)
(***************************************************************************)
EXTENDS Naturals, Integers, Sequences, FiniteSets, TLC

VARIABLES
    dataframe,   \* folder.dataframe: sequence of rows, in index order
    disk,        \* relative paths of the files present in folder.path
    datasets,    \* the DICOM dataset held by each file on disk
    nextUid,     \* next value of the UID generator
    nextFile,    \* next value of the file name generator
    calls,       \* number of calls made in the session
    last,        \* the last call: [op, UID, arg, ret]
    before,      \* [dataframe, disk] when the last call started
    api,         \* the call of a function of api.py that is under way
    heap         \* folder objects, table objects and the records held

vars == <<dataframe, disk, datasets, nextUid, nextFile, calls, last, before,
          api, heap>>

----------------------------------------------------------------------------
(* Bounds *)

\* the largest identifier the generator hands out
MaxUid == 14
\* the number of calls in a session
MaxCalls == 2
\* the largest file name the generator hands out to write()
MaxFile == 6

----------------------------------------------------------------------------
(* The index *)

\* folder._columns[0:4], the four hierarchy identifiers
Columns == <<"PatientID", "StudyInstanceUID", "SeriesInstanceUID", "SOPInstanceUID">>

\* folder._columns[4:], the cached descriptive attributes
CachedColumns == {"StudyDescription"}


Row(f, p, st, se, sop, desc) ==
    [file |-> f, PatientID |-> p, StudyInstanceUID |-> st,
     SeriesInstanceUID |-> se, SOPInstanceUID |-> sop,
     StudyDescription |-> desc,
     removed |-> FALSE, created |-> FALSE]

\* a series with three instances
DatabaseA == << Row(1, 1, 2, 3, 4, "MRI"), Row(2, 1, 2, 3, 5, "MRI"),
               Row(3, 1, 2, 3, 6, "MRI") >>
\* a patient with two studies of one series and one instance each
DatabaseB == << Row(1, 1, 2, 3, 4, "MRI"), Row(2, 1, 5, 6, 7, "CT") >>
InitialDatabases == {DatabaseA, DatabaseB}

Range(s) == {s[i] : i \in DOMAIN s}

Files(df) == {df[i].file : i \in DOMAIN df}

\* the dataset of the file that an index row was read from
DataSetOf(r) ==
    [PatientID |-> r.PatientID, StudyInstanceUID |-> r.StudyInstanceUID,
     SeriesInstanceUID |-> r.SeriesInstanceUID,
     SOPInstanceUID |-> r.SOPInstanceUID,
     StudyDescription |-> r.StudyDescription, ImageComments |-> "none"]

\* the datasets of the files that an index was read from
DataSetsOf(df) ==
    [f \in Files(df) |-> DataSetOf(CHOOSE r \in Range(df) : r.file = f)]

\* what is left of the datasets when only the files dsk are left
Kept(dss, dsk) == [f \in dsk |-> dss[f]]

Max(S) == CHOOSE x \in S : \A y \in S : y <= x

\* every identifier that occurs in the index
UIDsOf(df) == UNION {{df[i][Columns[c]] : c \in 1..4} : i \in DOMAIN df}

\* the first g hierarchy identifiers of a row
RowUID(r, g) == [c \in 1..g |-> r[Columns[c]]]

\* the record handles a caller can hold: the database and every patient,
\* study, series and instance that has a row in the index
Records(df) == {<<>>} \cup {RowUID(df[i], g) : i \in DOMAIN df, g \in 1..4}

\* Record.generation
generation(UID) == Len(UID)

\* Record.key
key(UID) == SubSeq(Columns, 1, generation(UID))

\* data() without the selection of the record's own rows
data_all(df, UID) == SelectSeq(df, LAMBDA r : r.removed = FALSE)

\* data() that does not leave out the rows flagged removed
data_withRemoved(df, UID) ==
    IF UID = <<>>
    THEN df
    ELSE SelectSeq(df, LAMBDA r : r[SubSeq(Columns, 1, Len(UID))[Len(UID)]]
                                     = UID[Len(UID)])

\* Record.data(): the rows that are not removed and carry the record's last
\* identifier in the column of the record's generation
data(df, UID) ==
    LET current == SelectSeq(df, LAMBDA r : r.removed = FALSE)
    IN  IF UID = <<>>
        THEN current
        ELSE SelectSeq(current,
                 LAMBDA r : r[key(UID)[Len(key(UID))]] = UID[Len(UID)])

\* save()/restore() taking the whole dataframe at every generation
selection_all(df, UID) == df

\* save()/restore() taking the rows of the record's patient
selection_ofPatient(df, UID) ==
    IF generation(UID) = 0
    THEN df
    ELSE SelectSeq(df, LAMBDA r : r.PatientID = UID[1])

\* the selection of save() and restore(): all rows for the database,
\* otherwise the rows with the record's last identifier, removed or not
selection(df, UID) ==
    IF generation(UID) = 0
    THEN df
    ELSE SelectSeq(df, LAMBDA r : r[key(UID)[Len(key(UID))]] = UID[Len(UID)])

\* Record.files (relative paths)
files(df, UID) == [i \in DOMAIN data(df, UID) |-> data(df, UID)[i].file]

\* dataframe.drop(labels)
drop(df, labels) == SelectSeq(df, LAMBDA r : r.file \notin labels)

\* what a navigation method returns: nothing (None), a list of records or
\* a single record
None == [kind |-> "None", value |-> <<>>]
List(objects) == [kind |-> "list", value |-> objects]
Single(obj) == [kind |-> "record", value |-> obj]

\* what a call that raises leaves its caller with
Raised(error) == [kind |-> "raised", value |-> error]

Called(op, UID, arg, ret) == [op |-> op, UID |-> UID, arg |-> arg, ret |-> ret]

Snapshot == [dataframe |-> dataframe, disk |-> disk]

\* no function of api.py is under way and none was called
NoApiCall ==
    [pc |-> "idle", fn |-> "none", sessions |-> 0, opened |-> FALSE,
     closes |-> 0, left |-> 0, raised |-> FALSE]

\* no folder object, no table object and no record that is held
NoHeap == [folders |-> <<>>, tables |-> <<>>, held |-> <<>>]

Logged(call) ==
    /\ calls' = calls + 1
    /\ last' = call
    /\ before' = Snapshot
    /\ UNCHANGED api

History(call) ==
    /\ Logged(call)
    /\ UNCHANGED heap

----------------------------------------------------------------------------
(* Staging: remove, save, restore *)

\* remove() dropping the rows of the record at once
removeRows_dropped(df, UID) == drop(df, Files(data(df, UID)))

\* remove() flagging only the rows that are not staged created
removeRows_committedOnly(df, UID) ==
    IF files(df, UID) = <<>>
    THEN df
    ELSE LET labels == Files(data(df, UID))
         IN  [i \in DOMAIN df |->
                 IF df[i].file \in labels /\ ~df[i].created
                 THEN [df[i] EXCEPT !.removed = TRUE]
                 ELSE df[i]]

\* remove() flagging the row of the first file of the record only
removeRows_firstFile(df, UID) ==
    IF files(df, UID) = <<>>
    THEN df
    ELSE [i \in DOMAIN df |->
             IF df[i].file = files(df, UID)[1]
             THEN [df[i] EXCEPT !.removed = TRUE]
             ELSE df[i]]

\* the dataframe after Record.remove()
removeRows(df, UID) ==
    IF files(df, UID) = <<>>
    THEN df
    ELSE LET labels == Files(data(df, UID))
         IN  [i \in DOMAIN df |->
                 IF df[i].file \in labels
                 THEN [df[i] EXCEPT !.removed = TRUE]
                 ELSE df[i]]

remove(UID) ==
    /\ calls < MaxCalls
    /\ dataframe' = removeRows(dataframe, UID)
    /\ UNCHANGED <<disk, datasets, nextUid, nextFile>>
    /\ History(Called("remove", UID, <<>>, <<>>))

\* save() without os.remove(file)
saveState_keepsFiles(df, dsk, UID) ==
    LET sel     == selection(df, UID)
        created == {sel[i].file : i \in {j \in DOMAIN sel : sel[j].created}}
        removed == {sel[i].file : i \in {j \in DOMAIN sel : sel[j].removed}}
        cleared == [i \in DOMAIN df |->
                       IF df[i].file \in created
                       THEN [df[i] EXCEPT !.created = FALSE]
                       ELSE df[i]]
    IN  [dataframe |-> drop(cleared, removed), disk |-> dsk]

\* save() without clearing the created flag
saveState_keepsCreated(df, dsk, UID) ==
    LET sel     == selection(df, UID)
        removed == {sel[i].file : i \in {j \in DOMAIN sel : sel[j].removed}}
    IN  [dataframe |-> drop(df, removed), disk |-> dsk \ removed]

\* the state after Record.save()
saveState(df, dsk, UID) ==
    LET sel     == selection(df, UID)
        created == {sel[i].file : i \in {j \in DOMAIN sel : sel[j].created}}
        removed == {sel[i].file : i \in {j \in DOMAIN sel : sel[j].removed}}
        cleared == [i \in DOMAIN df |->
                       IF df[i].file \in created
                       THEN [df[i] EXCEPT !.created = FALSE]
                       ELSE df[i]]
    IN  [dataframe |-> drop(cleared, removed), disk |-> dsk \ removed]

save(UID) ==
    /\ calls < MaxCalls
    /\ \E after \in {saveState(dataframe, disk, UID)} :
          /\ dataframe' = after.dataframe
          /\ disk' = after.disk
          /\ datasets' = Kept(datasets, after.disk)
    /\ UNCHANGED <<nextUid, nextFile>>
    /\ History(Called("save", UID, <<>>, <<>>))

\* restore() without os.remove(file)
restoreState_keepsFiles(df, dsk, UID) ==
    LET sel     == selection(df, UID)
        created == {sel[i].file : i \in {j \in DOMAIN sel : sel[j].created}}
        removed == {sel[i].file : i \in {j \in DOMAIN sel : sel[j].removed}}
        cleared == [i \in DOMAIN df |->
                       IF df[i].file \in removed
                       THEN [df[i] EXCEPT !.removed = FALSE]
                       ELSE df[i]]
    IN  [dataframe |-> drop(cleared, created), disk |-> dsk]

\* restore() without clearing the removed flag
restoreState_keepsRemoved(df, dsk, UID) ==
    LET sel     == selection(df, UID)
        created == {sel[i].file : i \in {j \in DOMAIN sel : sel[j].created}}
    IN  [dataframe |-> drop(df, created), disk |-> dsk \ created]

\* the state after Record.restore()
restoreState(df, dsk, UID) ==
    LET sel     == selection(df, UID)
        created == {sel[i].file : i \in {j \in DOMAIN sel : sel[j].created}}
        removed == {sel[i].file : i \in {j \in DOMAIN sel : sel[j].removed}}
        cleared == [i \in DOMAIN df |->
                       IF df[i].file \in removed
                       THEN [df[i] EXCEPT !.removed = FALSE]
                       ELSE df[i]]
    IN  [dataframe |-> drop(cleared, created), disk |-> dsk \ created]

restore(UID) ==
    /\ calls < MaxCalls
    /\ \E after \in {restoreState(dataframe, disk, UID)} :
          /\ dataframe' = after.dataframe
          /\ disk' = after.disk
          /\ datasets' = Kept(datasets, after.disk)
    /\ UNCHANGED <<nextUid, nextFile>>
    /\ History(Called("restore", UID, <<>>, UID))

----------------------------------------------------------------------------
(* Copying: Record.__init__, copy_to, merge_with, _merge_with, move_to *)

\* the generation the class of a record passes to Record.__init__
ClassGeneration(UID) == generation(UID)

\* folder.new_uid(n): n identifiers never handed out before
new_uid(uid, n) == [i \in 1..n |-> uid + i - 1]

\* folder.new_file(): a relative path never handed out before
new_file(file) == file

\* Record.__init__: UID padded with fresh identifiers up to the generation
Record__init__(UID, gen, uid) ==
    IF gen > Len(UID) THEN UID \o new_uid(uid, gen - Len(UID)) ELSE UID

\* the column as it is, without dropping repeated values
unique_all(s) == s

\* column.unique(): the distinct values in order of first appearance
RECURSIVE unique(_)
unique(s) ==
    IF s = <<>>
    THEN <<>>
    ELSE LET u == unique(SubSeq(s, 1, Len(s) - 1))
         IN  IF s[Len(s)] \in Range(u) THEN u ELSE Append(u, s[Len(s)])

\* the inner loop of _merge_with over df[key].unique(): one new uid per
\* distinct id, written to df.loc[rows.index, key], where rows.index is the
\* index of the boolean column, i.e. the label of every row of df
RECURSIVE RekeyIds(_, _, _, _)
RekeyIds(df, k, ids, uid) ==
    IF ids = <<>>
    THEN df
    ELSE RekeyIds([i \in DOMAIN df |-> [df[i] EXCEPT ![k] = uid]],
                  k, Tail(ids), uid + 1)

\* _merge_with without the loop that re-keys the columns
RekeyColumns_skipped(df, keys, uid) == [df |-> df, uid |-> uid]

\* the outer loop of _merge_with over folder._columns[generation:3]
RECURSIVE RekeyColumns(_, _, _)
RekeyColumns(df, keys, uid) ==
    IF keys = <<>>
    THEN [df |-> df, uid |-> uid]
    ELSE LET ids == unique([i \in DOMAIN df |-> df[i][Head(keys)]])
         IN  RekeyColumns(RekeyIds(df, Head(keys), ids, uid),
                          Tail(keys), uid + Len(ids))

\* _merge_with keeping the SOPInstanceUID of the source rows
NewSOPInstanceUIDs_kept(df, uid) == df

\* df.SOPInstanceUID = folder.new_uid(df.shape[0])
NewSOPInstanceUIDs(df, uid) ==
    [i \in DOMAIN df |->
        [df[i] EXCEPT !.SOPInstanceUID = new_uid(uid, Len(df))[i]]]

\* _merge_with writing only the last identifier of obj.UID
SetUID_lastOnly(r, U) ==
    IF U = <<>> THEN r ELSE [r EXCEPT ![Columns[Len(U)]] = U[Len(U)]]

\* df.loc[file, folder._columns[0:generation]] = obj.UID
SetUID(r, U) ==
    [r EXCEPT !.PatientID         = IF Len(U) >= 1 THEN U[1] ELSE @,
              !.StudyInstanceUID  = IF Len(U) >= 2 THEN U[2] ELSE @,
              !.SeriesInstanceUID = IF Len(U) >= 3 THEN U[3] ELSE @,
              !.SOPInstanceUID    = IF Len(U) >= 4 THEN U[4] ELSE @]

\* _merge_with asking new_file() once for the whole copy
NewFiles_oneForAll(df, file) ==
    [i \in DOMAIN df |-> [df[i] EXCEPT !.file = new_file(file)]]

\* df['files'] = [folder.new_file() for _ in range(df.shape[0])]
NewFiles(df, file) ==
    [i \in DOMAIN df |-> [df[i] EXCEPT !.file = new_file(file + i - 1)]]

\* utilities._set_tags(ds, keys, values)
_set_tags(ds, attributes) ==
    [k \in DOMAIN ds |->
        IF k \in DOMAIN attributes THEN attributes[k] ELSE ds[k]]

\* utilities._initialize(ds, UID): the dataset with the four identifiers
\* of the row
_initialize(ds, r) ==
    [ds EXCEPT !.PatientID = r.PatientID,
               !.StudyInstanceUID = r.StudyInstanceUID,
               !.SeriesInstanceUID = r.SeriesInstanceUID,
               !.SOPInstanceUID = r.SOPInstanceUID]

\* _merge_with not writing obj's attributes to the cached columns
SetCached_skipped(r, attributes) == r

\* df.at[file, key] = value for every key of obj.attributes that is a
\* cached column
SetCached(r, attributes) ==
    [k \in DOMAIN r |->
        IF k \in DOMAIN attributes /\ k \in CachedColumns
        THEN attributes[k]
        ELSE r[k]]

\* Record._merge_with: the state after copying the rows of self onto the
\* record obj with pending attributes, when the generators stand at uid
\* and file
_merge_with(df, dsk, dss, self, obj, attributes, uid, file) ==
    LET dfsource == data(df, self)
        n        == Len(dfsource)
        named    == NewFiles(dfsource, file)
        rekeyed  == RekeyColumns(named,
                        SubSeq(Columns, generation(self) + 1, 3), uid)
        sop      == NewSOPInstanceUIDs(rekeyed.df, rekeyed.uid)
        staged   == [i \in 1..n |->
                        [sop[i] EXCEPT !.removed = FALSE, !.created = TRUE]]
        moved    == [i \in 1..n |-> SetUID(staged[i], obj)]
        copy     == [i \in 1..n |-> SetCached(moved[i], attributes)]
        written  == [i \in 1..n |->
                        _set_tags(_initialize(dss[dfsource[i].file], moved[i]),
                                  attributes)]
    IN  [dataframe |-> df \o copy,
         disk      |-> dsk \cup Files(copy),
         datasets  |-> [f \in dsk \cup Files(copy) |->
                          IF \E i \in 1..n : copy[i].file = f
                          THEN written[CHOOSE i \in 1..n : copy[i].file = f]
                          ELSE dss[f]],
         nextUid   |-> rekeyed.uid + n,
         nextFile  |-> file + n]

\* the state a copying call leaves, which the call reaches only while the
\* generator stays within its bound
Copied(after, call) ==
    /\ after.nextUid <= MaxUid + 1
    /\ dataframe' = after.dataframe
    /\ disk' = after.disk
    /\ datasets' = after.datasets
    /\ nextUid' = after.nextUid
    /\ nextFile' = after.nextFile
    /\ History(call)

\* the pending attributes of a record that navigation built from the index
NoAttributes == <<>>

\* the state a call leaves that returns without touching the folder
Returned(call) ==
    /\ UNCHANGED <<dataframe, disk, datasets, nextUid, nextFile>>
    /\ History(call)

\* the records handed to copy_to and move_to as ancestor: the records above
\* the record or, for the database, which has none, the database
Ancestors(df, UID) ==
    IF generation(UID) = 0
    THEN {<<>>}
    ELSE {a \in Records(df) : generation(a) < generation(UID)}

\* Record.copy_to(ancestor)
copy_to(UID, ancestor) ==
    /\ calls < MaxCalls
    /\ IF generation(UID) = 0
       THEN Returned(Called("copy_to", UID, ancestor, None))
       ELSE \E copy \in {Record__init__(ancestor, ClassGeneration(UID),
                                         nextUid)} :
            \E after \in {_merge_with(dataframe, disk, datasets, UID, copy,
                               NoAttributes,
                               nextUid + (Len(copy) - Len(ancestor)),
                               nextFile)} :
                Copied(after, Called("copy_to", UID, ancestor, copy))

\* Record.merge_with(obj), for a record obj of the same generation that
\* holds the pending attributes
merge_with(UID, obj, attributes) ==
    /\ calls < MaxCalls
    /\ generation(obj) = generation(UID)
    /\ IF generation(UID) = 0
       THEN Returned(Called("merge_with", UID,
                            [UID |-> obj, attributes |-> attributes], None))
       ELSE \E after \in {_merge_with(dataframe, disk, datasets, UID, obj,
                               attributes, nextUid, nextFile)} :
                Copied(after,
                       Called("merge_with", UID,
                              [UID |-> obj, attributes |-> attributes], obj))

\* Record.move_to(ancestor): copy_to(ancestor), then remove()
move_to(UID, ancestor) ==
    /\ calls < MaxCalls
    /\ IF generation(UID) = 0
       THEN /\ dataframe' = removeRows(dataframe, UID)
            /\ UNCHANGED <<disk, datasets, nextUid, nextFile>>
            /\ History(Called("move_to", UID, ancestor, None))
       ELSE \E copy \in {Record__init__(ancestor, ClassGeneration(UID),
                                         nextUid)} :
            \E after \in {_merge_with(dataframe, disk, datasets, UID, copy,
                               NoAttributes,
                               nextUid + (Len(copy) - Len(ancestor)),
                               nextFile)} :
                Copied([after EXCEPT !.dataframe = removeRows(@, UID)],
                       Called("move_to", UID, ancestor, copy))

----------------------------------------------------------------------------
Init ==
    /\ dataframe \in InitialDatabases
    /\ disk = Files(dataframe)
    /\ datasets = DataSetsOf(dataframe)
    /\ nextUid = Max(UNION {UIDsOf(df) : df \in InitialDatabases}) + 1
    /\ nextFile = Max(UNION {Files(df) : df \in InitialDatabases}) + 1
    /\ calls = 0
    /\ last = Called("open", <<>>, <<>>, <<>>)
    /\ before = Snapshot
    /\ api = NoApiCall
    /\ heap = NoHeap

Next ==
    \/ calls < MaxCalls /\ \E UID \in Records(dataframe) : remove(UID)
    \/ calls < MaxCalls /\ \E UID \in Records(dataframe) : save(UID)
    \/ calls < MaxCalls /\ \E UID \in Records(dataframe) : restore(UID)
    \/ calls < MaxCalls /\ \E UID \in Records(dataframe) :
            \E ancestor \in Ancestors(dataframe, UID) : copy_to(UID, ancestor)
    \/ calls < MaxCalls /\ \E UID, obj \in Records(dataframe) :
            merge_with(UID, obj, NoAttributes)
    \/ calls < MaxCalls /\ \E UID \in Records(dataframe) :
            \E ancestor \in Ancestors(dataframe, UID) : move_to(UID, ancestor)

Spec == Init /\ [][Next]_vars

\* a session of staging and copying only
NextStage ==
    \/ calls < MaxCalls /\ \E UID \in Records(dataframe) : remove(UID)
    \/ calls < MaxCalls /\ \E UID \in Records(dataframe) : save(UID)
    \/ calls < MaxCalls /\ \E UID \in Records(dataframe) : restore(UID)
    \/ calls < MaxCalls /\ \E UID \in Records(dataframe) :
            \E ancestor \in Ancestors(dataframe, UID) : copy_to(UID, ancestor)

SpecStage == Init /\ [][NextStage]_vars

----------------------------------------------------------------------------
(* A session that is never saved: edits, and restore() of the database    *)

NextUndo ==
    \/ calls < MaxCalls /\ \E UID \in Records(dataframe) : remove(UID)
    \/ calls < MaxCalls /\ \E UID \in Records(dataframe) :
            \E ancestor \in Ancestors(dataframe, UID) : copy_to(UID, ancestor)
    \/ calls < MaxCalls /\ \E UID, obj \in Records(dataframe) :
            merge_with(UID, obj, NoAttributes)
    \/ calls < MaxCalls /\ \E UID \in Records(dataframe) :
            \E ancestor \in Ancestors(dataframe, UID) : move_to(UID, ancestor)
    \/ calls < MaxCalls /\ restore(<<>>)

SpecUndo == Init /\ [][NextUndo]_vars

----------------------------------------------------------------------------
(* Writing pixel arrays: set_array                                         *)

\* the numbers of slices of the arrays handed to set_array:
\* np.prod(array.shape[:-2])
Slices == {1, 2, 3}

\* set_array never finding array and dataset to disagree
Mismatch_never(slices, headers) == FALSE

\* nr_of_slices != np.prod(dataset.shape)
Mismatch(slices, headers) == slices # headers

\* Record._dataset_from_df(df): one instance per row, which is what
\* Record.dataset() returns of data() when it is not asked to sort
_dataset_from_df(df) == [i \in DOMAIN df |-> RowUID(df[i], 4)]

\* Record.new_series(): a new series under the study of the record, the
\* generations that are missing above it being created
new_series(UID, uid) ==
    LET above == IF generation(UID) <= 2 THEN UID ELSE SubSeq(UID, 1, 2)
    IN  [ret |-> Record__init__(above, 3, uid),
         nextUid |-> uid + (3 - Len(above))]

\* db.copy(instances, series): every instance copied to the series, one
\* after the other
RECURSIVE DbCopy(_, _, _)
DbCopy(st, insts, to) ==
    IF insts = <<>>
    THEN st
    ELSE LET copy == Record__init__(to, 4, st.nextUid)
         IN  DbCopy(_merge_with(st.dataframe, st.disk, st.datasets,
                                Head(insts), copy, NoAttributes,
                                st.nextUid + 1, st.nextFile),
                    Tail(insts), to)

\* instance.remove() on every instance of the list
RECURSIVE RemoveAll(_, _)
RemoveAll(df, insts) ==
    IF insts = <<>> THEN df
    ELSE RemoveAll(removeRows(df, Head(insts)), Tail(insts))

\* Record.set_array(array, inplace=inplace) with the instances of the
\* record as dataset
set_array(UID, slices, inplace) ==
    /\ calls < MaxCalls
    /\ \E headers \in {_dataset_from_df(data(dataframe, UID))} :
       IF Mismatch(slices, Len(headers))
       THEN Returned(Called("set_array", UID,
                            [slices |-> slices, inplace |-> inplace],
                            Raised("ValueError")))
       ELSE \E to \in {IF generation(UID) # 3
                       THEN new_series(UID, nextUid)
                       ELSE [ret |-> UID, nextUid |-> nextUid]} :
            \E copied \in {DbCopy([dataframe |-> dataframe, disk |-> disk,
                                    datasets |-> datasets,
                                    nextUid |-> to.nextUid,
                                    nextFile |-> nextFile],
                                   headers, to.ret)} :
            \E new \in {SubSeq(copied.dataframe, Len(dataframe) + 1,
                               Len(copied.dataframe))} :
                Copied([copied EXCEPT !.dataframe =
                           IF inplace
                           THEN RemoveAll(@, [i \in DOMAIN new |->
                                                 RowUID(new[i], 4)])
                           ELSE @],
                       Called("set_array", UID,
                              [slices |-> slices, inplace |-> inplace],
                              Single(to.ret)))

NextArray ==
    \/ calls < MaxCalls /\ \E UID \in Records(dataframe) : remove(UID)
    \/ calls < MaxCalls /\ \E UID \in Records(dataframe) :
            \E slices \in Slices, inplace \in BOOLEAN :
                set_array(UID, slices, inplace)

SpecArray == Init /\ [][NextArray]_vars

----------------------------------------------------------------------------
(* The facade of api.py: open a database, delegate, close it              *)

\* the functions of api.py that open a database
Facade ==
    {"to_json", "print", "summary", "tree", "patients", "studies", "series",
     "copy", "delete", "move", "split_series", "volume", "write_volume",
     "to_nifti", "from_nifti", "values", "files", "pixel_data", "unique",
     "archive", "restore"}

\* the number of methods of the database that the function calls between
\* open() and close()
Delegations(fn) ==
    IF fn \in {"to_json", "tree", "restore"} THEN 0
    ELSE IF fn = "move" THEN 2
    ELSE 1

\* the functions that raise ValueError on an entity that is neither a path
\* nor a list of the right length, before a database is opened
Checked == {"studies", "series"}

\* the function is entered with a valid entity: dbd = open(path)
ApiOpen(fn) ==
    /\ calls < MaxCalls
    /\ api.pc = "idle"
    /\ api' = [pc |-> "open", fn |-> fn, sessions |-> api.sessions + 1,
               opened |-> TRUE, closes |-> 0, left |-> Delegations(fn),
               raised |-> FALSE]
    /\ calls' = calls + 1
    /\ UNCHANGED <<dataframe, disk, datasets, nextUid, nextFile, last, before,
                   heap>>

\* the function is entered with an invalid entity and raises ValueError
ApiReject(fn) ==
    /\ calls < MaxCalls
    /\ api.pc = "idle"
    /\ fn \in Checked
    /\ api' = [pc |-> "idle", fn |-> fn, sessions |-> api.sessions,
               opened |-> FALSE, closes |-> 0, left |-> 0, raised |-> TRUE]
    /\ calls' = calls + 1
    /\ UNCHANGED <<dataframe, disk, datasets, nextUid, nextFile, last, before,
                   heap>>

\* the next method of the database is called: it returns, or it raises and
\* the exception leaves the function of api.py, which catches nothing
ApiDelegate(raises) ==
    /\ api.pc = "open"
    /\ api.left > 0
    /\ api' = IF raises
              THEN [api EXCEPT !.pc = "idle", !.raised = TRUE]
              ELSE [api EXCEPT !.left = @ - 1]
    /\ UNCHANGED <<dataframe, disk, datasets, nextUid, nextFile, calls, last,
                   before, heap>>

\* dbd.close(), and the function returns
ApiClose ==
    /\ api.pc = "open"
    /\ api.left = 0
    /\ api' = [api EXCEPT !.pc = "idle", !.sessions = @ - 1,
                          !.closes = @ + 1]
    /\ UNCHANGED <<dataframe, disk, datasets, nextUid, nextFile, calls, last,
                   before, heap>>

NextApi ==
    \/ \E fn \in Facade : ApiOpen(fn)
    \/ \E fn \in Facade : ApiReject(fn)
    \/ \E raises \in BOOLEAN : ApiDelegate(raises)
    \/ ApiClose

SpecApi == Init /\ [][NextApi]_vars

----------------------------------------------------------------------------
(* Two records held on one folder                                          *)

\* the records a session holds at a time
Held == {1, 2}

\* the folder object records are made with: its attribute dataframe refers
\* to the table object that holds the index
Opened(df) ==
    [folders |-> <<[dataframe |-> 1]>>, tables |-> <<df>>, held |-> <<>>]

\* a record made with a copy of the folder object instead of the folder
\* object
Hold_copiedFolder(hp, folder, UID) ==
    [hp EXCEPT !.folders = Append(@, hp.folders[folder]),
               !.held = Append(@, [folder |-> Len(hp.folders) + 1,
                                   UID |-> UID])]

\* Record.__init__: self.UID = objUID, self.folder = folder
Hold(hp, folder, UID) ==
    [hp EXCEPT !.held = Append(@, [folder |-> folder, UID |-> UID])]

\* self.folder.dataframe, as the record h reads it
Table(hp, h) == hp.tables[hp.folders[hp.held[h].folder].dataframe]

\* self.folder.dataframe.loc[...] = value and
\* self.folder.dataframe.drop(..., inplace=True): the table object the
\* folder of h refers to becomes df
InPlace(hp, h, df) ==
    [hp EXCEPT !.tables[hp.folders[hp.held[h].folder].dataframe] = df]

\* self.folder.__dict__['dataframe'] = pd.concat(...): the folder of h
\* refers to a new table object
Rebound(hp, h, df) ==
    [hp EXCEPT !.tables = Append(@, df),
               !.folders[hp.held[h].folder].dataframe = Len(hp.tables) + 1]

\* the folder is opened and its index is read
open_folder ==
    /\ heap = NoHeap
    /\ heap' = Opened(dataframe)
    /\ UNCHANGED <<dataframe, disk, datasets, nextUid, nextFile, calls, last,
                   before, api>>

\* a record of the folder is made and held
hold(UID) ==
    /\ heap # NoHeap
    /\ Len(heap.held) < Cardinality(Held)
    /\ heap' = Hold(heap, 1, UID)
    /\ UNCHANGED <<dataframe, disk, datasets, nextUid, nextFile, calls, last,
                   before, api>>

\* what a call through the record h is logged as
CalledBy(h, op, arg, ret) ==
    Called(op, heap.held[h].UID, [held |-> h, arg |-> arg], ret)

\* a call through h that changes its table in place
Mutated(h, after, call) ==
    /\ dataframe' = after.dataframe
    /\ disk' = after.disk
    /\ datasets' = Kept(datasets, after.disk)
    /\ heap' = InPlace(heap, h, after.dataframe)
    /\ UNCHANGED <<nextUid, nextFile>>
    /\ Logged(call)

\* a call through h that ends in _merge_with
Concatenated(h, after, call) ==
    /\ after.nextUid <= MaxUid + 1
    /\ dataframe' = after.dataframe
    /\ disk' = after.disk
    /\ datasets' = after.datasets
    /\ nextUid' = after.nextUid
    /\ nextFile' = after.nextFile
    /\ heap' = Rebound(heap, h, after.dataframe)
    /\ Logged(call)

\* remove() through the record h
removeHeld(h) ==
    /\ calls < MaxCalls
    /\ Mutated(h, [dataframe |-> removeRows(Table(heap, h), heap.held[h].UID),
                   disk |-> disk],
               CalledBy(h, "remove", <<>>, <<>>))

\* save() through the record h
saveHeld(h) ==
    /\ calls < MaxCalls
    /\ Mutated(h, saveState(Table(heap, h), disk, heap.held[h].UID),
               CalledBy(h, "save", <<>>, <<>>))

\* restore() through the record h
restoreHeld(h) ==
    /\ calls < MaxCalls
    /\ Mutated(h, restoreState(Table(heap, h), disk, heap.held[h].UID),
               CalledBy(h, "restore", <<>>, heap.held[h].UID))

\* copy_to(ancestor) through the record h
copy_toHeld(h, ancestor) ==
    /\ calls < MaxCalls
    /\ generation(heap.held[h].UID) # 0
    /\ \E copy \in {Record__init__(ancestor,
                                    ClassGeneration(heap.held[h].UID),
                                    nextUid)} :
       \E after \in {_merge_with(Table(heap, h), disk, datasets,
                                 heap.held[h].UID, copy, NoAttributes,
                                 nextUid + (Len(copy) - Len(ancestor)),
                                 nextFile)} :
            Concatenated(h, after, CalledBy(h, "copy_to", ancestor, copy))

\* merge_with(obj) through the record h, obj being the record o
merge_withHeld(h, o) ==
    /\ calls < MaxCalls
    /\ generation(heap.held[h].UID) # 0
    /\ generation(heap.held[o].UID) = generation(heap.held[h].UID)
    /\ \E after \in {_merge_with(Table(heap, h), disk, datasets,
                                 heap.held[h].UID, heap.held[o].UID,
                                 NoAttributes, nextUid, nextFile)} :
            Concatenated(h, after,
                         CalledBy(h, "merge_with", heap.held[o].UID,
                                  heap.held[o].UID))

NextHeld ==
    \/ open_folder
    \/ \E UID \in Records(dataframe) : hold(UID)
    \/ calls < MaxCalls /\ \E h \in DOMAIN heap.held : removeHeld(h)
    \/ calls < MaxCalls /\ \E h \in DOMAIN heap.held : saveHeld(h)
    \/ calls < MaxCalls /\ \E h \in DOMAIN heap.held : restoreHeld(h)
    \/ calls < MaxCalls /\ \E h \in DOMAIN heap.held :
            \E ancestor \in Ancestors(Table(heap, h), heap.held[h].UID) :
                copy_toHeld(h, ancestor)
    \/ calls < MaxCalls /\ \E h, o \in DOMAIN heap.held : merge_withHeld(h, o)

SpecHeld == Init /\ [][NextHeld]_vars

----------------------------------------------------------------------------
(* Calls during which a file cannot be deleted or read                     *)

Rows(df) == Range(df)

RemovedFiles(df) == {r.file : r \in {x \in Rows(df) : x.removed}}

CreatedFiles(df) == {r.file : r \in {x \in Rows(df) : x.created}}

\* no file fails during the call
NoFile == 0

\* the paths of the rows of df in index order
Paths(df) == [i \in DOMAIN df |-> df[i].file]

\* for file in files: if os.path.exists(file): os.remove(file), where
\* os.remove raises on the file bad: the disk when the loop ends or raises
RECURSIVE RemoveFiles(_, _, _)
RemoveFiles(dsk, fs, bad) ==
    IF fs = <<>>
    THEN [disk |-> dsk, raised |-> FALSE]
    ELSE IF Head(fs) \in dsk /\ Head(fs) = bad
         THEN [disk |-> dsk, raised |-> TRUE]
         ELSE RemoveFiles(dsk \ {Head(fs)}, Tail(fs), bad)

\* save() carrying on with the index after os.remove has raised
saveOutcome_carriesOn(df, dsk, UID, bad) ==
    LET sel     == selection(df, UID)
        deleted == RemoveFiles(dsk, Paths(SelectSeq(sel, LAMBDA r : r.removed)),
                               bad)
    IN  [dataframe |-> saveState(df, dsk, UID).dataframe,
         disk      |-> deleted.disk,
         raised    |-> deleted.raised]

\* Record.save() when os.remove raises on the file bad: the exception
\* leaves the method before the index is touched
saveOutcome(df, dsk, UID, bad) ==
    LET sel     == selection(df, UID)
        deleted == RemoveFiles(dsk, Paths(SelectSeq(sel, LAMBDA r : r.removed)),
                               bad)
    IN  [dataframe |-> IF deleted.raised
                       THEN df
                       ELSE saveState(df, dsk, UID).dataframe,
         disk      |-> deleted.disk,
         raised    |-> deleted.raised]

\* Record.restore() when os.remove raises on the file bad
restoreOutcome(df, dsk, UID, bad) ==
    LET sel     == selection(df, UID)
        deleted == RemoveFiles(dsk, Paths(SelectSeq(sel, LAMBDA r : r.created)),
                               bad)
    IN  [dataframe |-> IF deleted.raised
                       THEN df
                       ELSE restoreState(df, dsk, UID).dataframe,
         disk      |-> deleted.disk,
         raised    |-> deleted.raised]

\* the state a call of save() or restore() leaves
Staged(op, UID, bad, after) ==
    /\ calls < MaxCalls
    /\ dataframe' = after.dataframe
    /\ disk' = after.disk
    /\ datasets' = Kept(datasets, after.disk)
    /\ UNCHANGED <<nextUid, nextFile>>
    /\ History(Called(op, UID, bad,
                      IF after.raised THEN Raised("OSError") ELSE None))

saveIO(UID, bad) ==
    \E after \in {saveOutcome(dataframe, disk, UID, bad)} :
        Staged("save", UID, bad, after)

restoreIO(UID, bad) ==
    \E after \in {restoreOutcome(dataframe, disk, UID, bad)} :
        Staged("restore", UID, bad, after)

\* the place of the first row of df whose file cannot be read, because it
\* is the file bad or is not on disk; 0 when all can be read
FirstBad(df, dsk, bad) ==
    LET unread(i) == df[i].file = bad \/ df[i].file \notin dsk
    IN  IF \E i \in DOMAIN df : unread(i)
        THEN CHOOSE i \in DOMAIN df :
                 unread(i) /\ \A j \in 1..(i - 1) : ~unread(j)
        ELSE 0

\* Record._merge_with when pydicom.dcmread raises on a source file: the
\* identifiers and paths are taken, the copies of the rows in front of the
\* file are written to disk, and the exception leaves the method before the
\* rows are appended to the index
_merge_with_read(df, dsk, dss, self, obj, attributes, uid, file, bad) ==
    LET dfsource == data(df, self)
        p        == FirstBad(dfsource, dsk, bad)
    IN  IF p = 0
        THEN _merge_with(df, dsk, dss, self, obj, attributes, uid, file)
                 @@ [raised |-> FALSE]
        ELSE LET named   == NewFiles(dfsource, file)
                 rekeyed == RekeyColumns(named,
                                SubSeq(Columns, generation(self) + 1, 3), uid)
                 sop     == NewSOPInstanceUIDs(rekeyed.df, rekeyed.uid)
                 moved   == [i \in 1..(p - 1) |-> SetUID(sop[i], obj)]
                 done    == {moved[i].file : i \in 1..(p - 1)}
             IN  [dataframe |-> df,
                  disk      |-> dsk \cup done,
                  datasets  |->
                      [f \in dsk \cup done |->
                          IF \E i \in 1..(p - 1) : moved[i].file = f
                          THEN LET i == CHOOSE i \in 1..(p - 1) :
                                            moved[i].file = f
                               IN  _set_tags(_initialize(dss[dfsource[i].file],
                                                         moved[i]),
                                             attributes)
                          ELSE dss[f]],
                  nextUid   |-> rekeyed.uid + Len(dfsource),
                  nextFile  |-> file + Len(dfsource),
                  raised    |-> TRUE]

\* Record.copy_to(ancestor) when pydicom.dcmread raises on the file bad
copy_toIO(UID, ancestor, bad) ==
    /\ calls < MaxCalls
    /\ IF generation(UID) = 0
       THEN Returned(Called("copy_to", UID, bad, None))
       ELSE \E copy \in {Record__init__(ancestor, ClassGeneration(UID),
                                         nextUid)} :
            \E after \in {_merge_with_read(dataframe, disk, datasets, UID,
                               copy, NoAttributes,
                               nextUid + (Len(copy) - Len(ancestor)),
                               nextFile, bad)} :
                Copied(after,
                       Called("copy_to", UID, bad,
                              IF after.raised THEN Raised("OSError")
                              ELSE Single(copy)))

\* the file that fails during a call is one of the files the call reads or
\* deletes, or none
NextIO ==
    \/ calls < MaxCalls /\ \E UID \in Records(dataframe) : remove(UID)
    \/ calls < MaxCalls /\ \E UID \in Records(dataframe) :
            \E ancestor \in Ancestors(dataframe, UID) :
                \E bad \in Files(data(dataframe, UID)) \cup {NoFile} :
                    copy_toIO(UID, ancestor, bad)
    \/ calls < MaxCalls /\ \E UID \in Records(dataframe) :
            \E bad \in RemovedFiles(selection(dataframe, UID)) \cup {NoFile} :
                saveIO(UID, bad)
    \/ calls < MaxCalls /\ \E UID \in Records(dataframe) :
            \E bad \in CreatedFiles(selection(dataframe, UID)) \cup {NoFile} :
                restoreIO(UID, bad)

SpecIO == Init /\ [][NextIO]_vars

----------------------------------------------------------------------------
(* Records that hold pending attributes: merge_with onto such a record    *)

\* the pending attributes a record is constructed with (**attributes)
PendingAttributes ==
    { NoAttributes,
      [ImageComments |-> "new"],
      [StudyDescription |-> "PET", ImageComments |-> "new"] }

NextMerge ==
    \/ calls < MaxCalls /\ \E UID \in Records(dataframe) : remove(UID)
    \/ calls < MaxCalls /\ \E UID, obj \in Records(dataframe) :
            \E attributes \in PendingAttributes :
                merge_with(UID, obj, attributes)

SpecMerge == Init /\ [][NextMerge]_vars

\* a session of removing and copying: copy_to, whose copy holds no pending
\* attributes, and merge_with onto a record that holds some
NextCopy ==
    \/ calls < MaxCalls /\ \E UID \in Records(dataframe) : remove(UID)
    \/ calls < MaxCalls /\ \E UID \in Records(dataframe) :
            \E ancestor \in Ancestors(dataframe, UID) : copy_to(UID, ancestor)
    \/ calls < MaxCalls /\ \E UID, obj \in Records(dataframe) :
            merge_with(UID, obj,
                       [StudyDescription |-> "PET", ImageComments |-> "new"])

SpecCopy == Init /\ [][NextCopy]_vars

----------------------------------------------------------------------------
(* Navigation: records, children, instances, patients, studies, series    *)

\* dicm.object(folder, row, generation): the record of that generation that
\* the row belongs to
object(row, gen) == RowUID(row, gen)

\* dicm.parent(record)
parent(UID) == SubSeq(UID, 1, Len(UID) - 1)

\* utilities._filter: the object built from the row satisfies every
\* predicate attr=value of kwargs
Matches(row, kwargs) == \A k \in DOMAIN kwargs : row[k] = kwargs[k]

\* the list with the lists of a list of lists one after the other
RECURSIVE extend(_)
extend(lists) ==
    IF lists = <<>> THEN <<>> ELSE Head(lists) \o extend(Tail(lists))

\* Record.records(generation, **kwargs) without an index
records(df, UID, gen, kwargs) ==
    IF gen = 0
    THEN << <<>> >>
    ELSE LET d        == data(df, UID)
             column   == [i \in DOMAIN d |-> d[i][Columns[gen]]]
             rec_list == unique(column)
             row(rec) == d[CHOOSE i \in DOMAIN d :
                             /\ column[i] = rec
                             /\ \A j \in 1..(i - 1) : column[j] # rec]
             rows     == [j \in DOMAIN rec_list |-> row(rec_list[j])]
             filtered == SelectSeq(rows, LAMBDA r : Matches(r, kwargs))
         IN  [j \in DOMAIN filtered |-> object(filtered[j], gen)]

\* Record.children(**kwargs)
children(df, UID, kwargs) ==
    IF generation(UID) = 4
    THEN <<>>
    ELSE records(df, UID, generation(UID) + 1, kwargs)

\* DbDicom.instances(**kwargs) without an index
RECURSIVE instances(_, _, _)
instances(df, UID, kwargs) ==
    IF generation(UID) = 4 THEN None
    ELSE IF generation(UID) = 3 THEN List(children(df, UID, kwargs))
    ELSE LET kids == children(df, UID, NoAttributes)
         IN  List(extend([i \in DOMAIN kids |->
                             instances(df, kids[i], kwargs).value]))

\* Record.patients(**kwargs) without an index
patients(df, UID, kwargs) ==
    IF generation(UID) = 4 THEN Single(parent(parent(parent(UID))))
    ELSE IF generation(UID) = 3 THEN Single(parent(parent(UID)))
    ELSE IF generation(UID) = 1 THEN None
    ELSE List(children(df, UID, kwargs))

\* studies() of the database handing the predicates to children() as well
studies_filtersPatients(df, UID, kwargs) ==
    IF generation(UID) = 4 THEN Single(parent(parent(UID)))
    ELSE IF generation(UID) = 3 THEN Single(parent(UID))
    ELSE IF generation(UID) = 2 THEN None
    ELSE IF generation(UID) = 1 THEN List(children(df, UID, kwargs))
    ELSE LET kids == children(df, UID, kwargs)
         IN  List(extend([i \in DOMAIN kids |->
                             children(df, kids[i], NoAttributes)]))

\* Record.studies(**kwargs) without an index
studies(df, UID, kwargs) ==
    IF generation(UID) = 4 THEN Single(parent(parent(UID)))
    ELSE IF generation(UID) = 3 THEN Single(parent(UID))
    ELSE IF generation(UID) = 2 THEN None
    ELSE IF generation(UID) = 1 THEN List(children(df, UID, kwargs))
    ELSE LET kids == children(df, UID, NoAttributes)
         IN  List(extend([i \in DOMAIN kids |->
                             children(df, kids[i], kwargs)]))

\* Record.series(**kwargs) without an index
RECURSIVE series(_, _, _)
series(df, UID, kwargs) ==
    IF generation(UID) = 4 THEN Single(parent(UID))
    ELSE IF generation(UID) = 3 THEN None
    ELSE IF generation(UID) = 2 THEN List(children(df, UID, kwargs))
    ELSE LET kids == children(df, UID, NoAttributes)
         IN  List(extend([i \in DOMAIN kids |->
                             series(df, kids[i], kwargs).value]))

\* dicm.new_child(record): a record one generation below, under the record
new_child(UID, uid) == Record__init__(UID, generation(UID) + 1, uid)

\* new_sibling() without the early return at generation 0
new_sibling_unguarded(UID, uid) ==
    [ret |-> Single(new_child(parent(UID), uid)), nextUid |-> uid + 1]

\* Record.new_sibling(): the record returned and the identifiers used
new_sibling(UID, uid) ==
    IF generation(UID) = 0
    THEN [ret |-> None, nextUid |-> uid]
    ELSE [ret |-> Single(new_child(parent(UID), uid)), nextUid |-> uid + 1]

\* Record.new_pibling()
new_pibling(UID, uid) ==
    IF generation(UID) <= 1
    THEN [ret |-> None, nextUid |-> uid]
    ELSE new_sibling(parent(UID), uid)

\* Record.new_cousin()
new_cousin(UID, uid) ==
    IF generation(UID) <= 1
    THEN [ret |-> None, nextUid |-> uid]
    ELSE LET pibling == new_pibling(UID, uid)
         IN  [ret |-> Single(new_child(pibling.ret.value, pibling.nextUid)),
              nextUid |-> pibling.nextUid + 1]

\* the keyword arguments that navigation is called with
Filters ==
    { NoAttributes,
      [StudyDescription |-> "MRI"],
      [StudyDescription |-> "MRI", StudyInstanceUID |-> 5] }

Navigated ==
    last.op \in {"children", "instances", "patients", "studies", "series",
                 "new_sibling", "new_pibling", "new_cousin"}

\* a call of a navigation method: the folder is left alone
Navigate(op, UID, kwargs, ret) ==
    /\ calls < MaxCalls /\ ~Navigated
    /\ Returned(Called(op, UID, kwargs, ret))

\* a call of new_sibling, new_pibling or new_cousin
NewRecord(op, UID, new) ==
    /\ calls < MaxCalls /\ ~Navigated
    /\ new.nextUid <= MaxUid + 1
    /\ nextUid' = new.nextUid
    /\ UNCHANGED <<dataframe, disk, datasets, nextFile>>
    /\ History(Called(op, UID, <<>>, new.ret))

\* sessions that change the index and then navigate it
NextNav ==
    \/ calls < MaxCalls /\ ~Navigated /\
            \E UID \in Records(dataframe) : remove(UID)
    \/ calls < MaxCalls /\ ~Navigated /\
            \E UID \in Records(dataframe) : save(UID)
    \/ calls < MaxCalls /\ ~Navigated /\
            \E UID \in Records(dataframe) :
                \E ancestor \in Ancestors(dataframe, UID) :
                    copy_to(UID, ancestor)
    \/ calls < MaxCalls /\ ~Navigated /\
            merge_with(<<>>, <<>>, NoAttributes)
    \/ \E UID \in Records(dataframe), kwargs \in Filters :
            Navigate("children", UID, kwargs,
                     List(children(dataframe, UID, kwargs)))
    \/ \E UID \in Records(dataframe), kwargs \in Filters :
            Navigate("instances", UID, kwargs,
                     instances(dataframe, UID, kwargs))
    \/ \E UID \in Records(dataframe) :
            Navigate("patients", UID, NoAttributes,
                     patients(dataframe, UID, NoAttributes))
    \/ \E UID \in Records(dataframe), kwargs \in Filters :
            Navigate("studies", UID, kwargs, studies(dataframe, UID, kwargs))
    \/ \E UID \in Records(dataframe), kwargs \in Filters :
            Navigate("series", UID, kwargs, series(dataframe, UID, kwargs))
    \/ \E UID \in Records(dataframe) :
            NewRecord("new_sibling", UID, new_sibling(UID, nextUid))
    \/ \E UID \in Records(dataframe) :
            NewRecord("new_pibling", UID, new_pibling(UID, nextUid))
    \/ \E UID \in Records(dataframe) :
            NewRecord("new_cousin", UID, new_cousin(UID, nextUid))

SpecNav == Init /\ [][NextNav]_vars

----------------------------------------------------------------------------
(* Navigation with an index                                                *)

\* the values of index that navigation is called with, counting from 0
Indices == {0, 1, 2, 3}

\* Record.records(generation, index=index, **kwargs) for a generation below
\* the database: the index is taken off the unfiltered list, rec_list[index]
\* and objects[0] raise IndexError when there is no such element
records_at(df, UID, gen, index, kwargs) ==
    LET d        == data(df, UID)
        column   == [i \in DOMAIN d |-> d[i][Columns[gen]]]
        rec_list == unique(column)
        row(rec) == d[CHOOSE i \in DOMAIN d :
                        /\ column[i] = rec
                        /\ \A j \in 1..(i - 1) : column[j] # rec]
    IN  IF d = <<>> THEN None
        ELSE IF index >= Len(rec_list) THEN Raised("IndexError")
        ELSE IF ~Matches(row(rec_list[index + 1]), kwargs)
             THEN Raised("IndexError")
             ELSE Single(object(row(rec_list[index + 1]), gen))

\* Record.children(index=index, **kwargs)
children_at(df, UID, index, kwargs) ==
    IF generation(UID) = 4
    THEN List(<<>>)
    ELSE records_at(df, UID, generation(UID) + 1, index, kwargs)

\* the end of instances(), studies() and series() when they have gathered
\* the list objects themselves
At(objects, index) ==
    IF index >= Len(objects) THEN None ELSE Single(objects[index + 1])

\* DbDicom.instances(index=index, **kwargs)
instances_at(df, UID, index, kwargs) ==
    IF generation(UID) = 4 THEN None
    ELSE IF generation(UID) = 3 THEN children_at(df, UID, index, kwargs)
    ELSE At(instances(df, UID, kwargs).value, index)

\* Record.patients(index=index, **kwargs)
patients_at(df, UID, index, kwargs) ==
    IF generation(UID) = 4 THEN Single(parent(parent(parent(UID))))
    ELSE IF generation(UID) = 3 THEN Single(parent(parent(UID)))
    ELSE IF generation(UID) = 1 THEN None
    ELSE children_at(df, UID, index, kwargs)

\* Record.studies(index=index, **kwargs)
studies_at(df, UID, index, kwargs) ==
    IF generation(UID) = 4 THEN Single(parent(parent(UID)))
    ELSE IF generation(UID) = 3 THEN Single(parent(UID))
    ELSE IF generation(UID) = 2 THEN None
    ELSE IF generation(UID) = 1 THEN children_at(df, UID, index, kwargs)
    ELSE At(studies(df, UID, kwargs).value, index)

\* Record.series(index=index, **kwargs)
series_at(df, UID, index, kwargs) ==
    IF generation(UID) = 4 THEN Single(parent(UID))
    ELSE IF generation(UID) = 3 THEN None
    ELSE IF generation(UID) = 2 THEN children_at(df, UID, index, kwargs)
    ELSE At(series(df, UID, kwargs).value, index)

\* a call of a navigation method with an index
NavigateAt(op, UID, index, kwargs, ret) ==
    /\ calls < MaxCalls /\ ~Navigated
    /\ Returned(Called(op, UID, [index |-> index, kwargs |-> kwargs], ret))

\* sessions that remove records and then navigate with an index
NextIndex ==
    \/ calls < MaxCalls /\ ~Navigated /\
            \E UID \in Records(dataframe) : remove(UID)
    \/ \E UID \in Records(dataframe), index \in Indices, kwargs \in Filters :
            NavigateAt("children", UID, index, kwargs,
                       children_at(dataframe, UID, index, kwargs))
    \/ \E UID \in Records(dataframe), index \in Indices, kwargs \in Filters :
            NavigateAt("instances", UID, index, kwargs,
                       instances_at(dataframe, UID, index, kwargs))
    \/ \E UID \in Records(dataframe), index \in Indices :
            NavigateAt("patients", UID, index, NoAttributes,
                       patients_at(dataframe, UID, index, NoAttributes))
    \/ \E UID \in Records(dataframe), index \in Indices, kwargs \in Filters :
            NavigateAt("studies", UID, index, kwargs,
                       studies_at(dataframe, UID, index, kwargs))
    \/ \E UID \in Records(dataframe), index \in Indices, kwargs \in Filters :
            NavigateAt("series", UID, index, kwargs,
                       series_at(dataframe, UID, index, kwargs))

SpecIndex == Init /\ [][NextIndex]_vars

----------------------------------------------------------------------------
(* create.py: series(dtype, in_study, in_database, **kwargs)              *)

\* the values of dtype that series() is called with
Dtypes == {"mri", "MRImage", "ct"}

\* a record made by new_patient, new_study or new_series with the keyword
\* arguments it was given
Made(UID, attributes) == [UID |-> UID, attributes |-> attributes]

\* create.series: what it returns or raises, what it has created on the
\* way and where the generator of identifiers stands afterwards; in_study
\* and in_database are None or a record
create_series(dtype, in_study, in_database, kwargs, uid) ==
    IF dtype \notin {"mri", "MRImage"}
    THEN [ret |-> Raised("ValueError"), made |-> {}, nextUid |-> uid]
    ELSE IF in_study # None
    THEN [ret |-> Single(Made(new_child(in_study.value, uid), NoAttributes)),
          made |-> {"series"},
          nextUid |-> uid + 1]
    ELSE LET db      == IF in_database = None THEN <<>>
                        ELSE in_database.value
             patient == new_child(db, uid)
             study   == new_child(patient, uid + 1)
         IN  [ret |-> Single(Made(new_child(study, uid + 2), kwargs)),
              made |-> {"patient", "study", "series"}
                           \cup IF in_database = None
                                THEN {"database"} ELSE {},
              nextUid |-> uid + 3]

\* a call of create.series
CreateSeries(dtype, in_study, in_database, kwargs) ==
    /\ calls < MaxCalls
    /\ \E new \in {create_series(dtype, in_study, in_database, kwargs,
                                  nextUid)} :
          /\ new.nextUid <= MaxUid + 1
          /\ nextUid' = new.nextUid
          /\ UNCHANGED <<dataframe, disk, datasets, nextFile>>
          /\ History(Called("create.series", <<>>,
                            [dtype |-> dtype, in_study |-> in_study,
                             in_database |-> in_database, kwargs |-> kwargs,
                             made |-> new.made],
                            new.ret))

\* sessions that remove records and create series
NextCreate ==
    \/ calls < MaxCalls /\ \E UID \in Records(dataframe) : remove(UID)
    \/ calls < MaxCalls /\
            \E dtype \in Dtypes, kwargs \in PendingAttributes :
            \E in_study \in {None} \cup {Single(UID) :
                                  UID \in {x \in Records(dataframe) :
                                               generation(x) = 2}} :
            \E in_database \in {None, Single(<<>>)} :
                CreateSeries(dtype, in_study, in_database, kwargs)

SpecCreate == Init /\ [][NextCreate]_vars

----------------------------------------------------------------------------
(* Reading and writing datasets: read, write, _copy_attributes_to         *)

\* Record.read(): the datasets of the instances of the record, each read
\* from the first file of the instance
read(df, dss, UID) ==
    LET recs == IF generation(UID) = 4
                THEN IF files(df, UID) = <<>> THEN <<>> ELSE <<UID>>
                ELSE instances(df, UID, NoAttributes).value
    IN  [i \in DOMAIN recs |-> dss[files(df, recs[i])[1]]]

\* _copy_attributes_to leaving the pending attributes out
_copy_attributes_to_identifiersOnly(UID, attributes, ds) == SetUID(ds, UID)

\* Record._copy_attributes_to(dataset): the identifiers of the record, then
\* its pending attributes
_copy_attributes_to(UID, attributes, ds) ==
    _set_tags(SetUID(ds, UID), attributes)

\* the index row of a dataset written to file
RowOf(ds, file) ==
    [file |-> file, PatientID |-> ds.PatientID,
     StudyInstanceUID |-> ds.StudyInstanceUID,
     SeriesInstanceUID |-> ds.SeriesInstanceUID,
     SOPInstanceUID |-> ds.SOPInstanceUID,
     StudyDescription |-> ds.StudyDescription,
     removed |-> FALSE, created |-> TRUE]

\* folder._add(instances): every instance is written to a new file and
\* gets a row of its own, staged created
_add(df, dsk, dss, written, file) ==
    LET n    == Len(written)
        rows == [i \in 1..n |-> RowOf(written[i], new_file(file + i - 1))]
    IN  [dataframe |-> df \o rows,
         disk      |-> dsk \cup Files(rows),
         datasets  |-> [f \in dsk \cup Files(rows) |->
                          IF f \in dsk THEN dss[f]
                          ELSE written[CHOOSE i \in 1..n : rows[i].file = f]],
         nextFile  |-> file + n]

\* the records that write() is called on: the records of the index and a
\* series that new_child() has just built under a study
Targets(df, uid) ==
    Records(df) \cup {new_child(p, uid) : p \in {x \in Records(df) :
                                                    generation(x) = 2}}

\* the datasets handed to write(): what read() returns for the database
\* and for a series
DataSets(df, dss) ==
    {read(df, dss, src) : src \in {x \in Records(df) :
                                      generation(x) \in {0, 3}}} \ {<<>>}

\* Record.write(dataset) on a record with pending attributes
write(UID, attributes, dataset) ==
    /\ calls < MaxCalls
    /\ nextFile + Len(dataset) - 1 <= MaxFile
    /\ \E stamped \in {[i \in DOMAIN dataset |->
                           _copy_attributes_to(UID, attributes, dataset[i])]} :
       \E after \in {_add(dataframe, disk, datasets, stamped, nextFile)} :
           /\ dataframe' = after.dataframe
           /\ disk' = after.disk
           /\ datasets' = after.datasets
           /\ nextFile' = after.nextFile
           /\ nextUid' = IF UID \in Records(dataframe)
                         THEN nextUid ELSE nextUid + 1
           /\ History(Called("write", UID,
                              [attributes |-> attributes, dataset |-> dataset],
                              stamped))

\* sessions that remove records and write datasets
NextWrite ==
    \/ calls < MaxCalls /\ \E UID \in Records(dataframe) : remove(UID)
    \/ calls < MaxCalls /\
            \E dataset \in DataSets(dataframe, datasets) :
            \E UID \in Targets(dataframe, nextUid) :
            \E attributes \in PendingAttributes :
                write(UID, attributes, dataset)

SpecWrite == Init /\ [][NextWrite]_vars

----------------------------------------------------------------------------
(* data() on a folder with a path and on a folder in memory               *)

\* folder.path: the directory of a folder on disk, None of a folder in
\* memory
OnDisk == "folder"
InMemory == "None"

\* Record.data() with both its branches: the whole table when the folder
\* has no path, the rows of the record that are not removed otherwise
data_at(path, df, UID) ==
    IF path = InMemory THEN df ELSE data(df, UID)

\* Record.data() is called on a record of a folder with that path; in
\* memory remove() cannot have flagged rows, because Record.files joins
\* every relative path with folder.path
Data(path, UID) ==
    /\ calls < MaxCalls
    /\ path = InMemory => \A i \in DOMAIN dataframe : ~dataframe[i].removed
    /\ Returned(Called("data", UID, path,
                       [kind |-> "rows",
                        value |-> data_at(path, dataframe, UID)]))

NextData ==
    \/ calls < MaxCalls /\ \E UID \in Records(dataframe) : remove(UID)
    \/ calls < MaxCalls /\ \E UID \in Records(dataframe) :
            \E path \in {OnDisk, InMemory} : Data(path, UID)

SpecData == Init /\ [][NextData]_vars

----------------------------------------------------------------------------
(* Properties.  A call's effect is stated on the state it produced,       *)
(* against the state `before` in which it started.                        *)

Flagged(r) == r.created \/ r.removed

\* the rows of df that belong to record UID: their hierarchy identifiers,
\* truncated to the record's generation, are the record's UID tuple
Belongs(r, UID) == RowUID(r, Len(UID)) = UID

\* C1: save() on the database record deletes the file of every row that was
\* flagged removed and drops the row, keeps every row that was flagged
\* created (and not removed) with created = FALSE, leaves the other rows and
\* files alone, and leaves no row with a staging flag
C1_DatabaseSaveCommits ==
    (last.op = "save" /\ last.UID = <<>>) =>
        /\ \A r \in Rows(before.dataframe) :
              /\ r.removed =>
                    r.file \notin disk /\ r.file \notin Files(dataframe)
              /\ (r.created /\ ~r.removed) =>
                    [r EXCEPT !.created = FALSE] \in Rows(dataframe)
        /\ \A r \in Rows(dataframe) : ~Flagged(r)
        /\ Files(dataframe) =
              Files(before.dataframe) \ RemovedFiles(before.dataframe)
        /\ disk = before.disk \ RemovedFiles(before.dataframe)

\* a series with 3 instances was removed and the database saved: exactly
\* its 3 rows and 3 files are gone
C1_Witness ==
    /\ last.op = "save" /\ last.UID = <<>>
    /\ Cardinality(RemovedFiles(before.dataframe)) = 3
    /\ \E r \in Rows(before.dataframe) :
          \A x \in Rows(before.dataframe) :
              (x.SeriesInstanceUID = r.SeriesInstanceUID) <=> x.removed
    /\ Len(dataframe) = Len(before.dataframe) - 3
    /\ Cardinality(disk) = Cardinality(before.disk) - 3

\* C2: restore() on the database record deletes the file of every row that
\* was flagged created and drops the row, keeps every row that was flagged
\* removed (and not created) with removed = FALSE, and leaves no row with a
\* staging flag
C2_DatabaseRestoreRollsBack ==
    (last.op = "restore" /\ last.UID = <<>>) =>
        /\ \A r \in Rows(before.dataframe) :
              /\ r.created =>
                    r.file \notin disk /\ r.file \notin Files(dataframe)
              /\ (r.removed /\ ~r.created) =>
                    [r EXCEPT !.removed = FALSE] \in Rows(dataframe)
        /\ \A r \in Rows(dataframe) : ~Flagged(r)

\* the database was restored while it held rows flagged created and rows
\* flagged removed
C2_Witness ==
    /\ last.op = "restore" /\ last.UID = <<>>
    /\ \E r \in Rows(before.dataframe) : r.created
    /\ \E r \in Rows(before.dataframe) : r.removed /\ ~r.created
    /\ Len(dataframe) < Len(before.dataframe)

\* the state after record.restore() on the record that the last call, a
\* remove(), was made on
RemoveThenRestore == restoreState(dataframe, disk, last.UID)

\* C3 as stated: in every state and for every record, remove() followed by
\* restore() on the same record gives back the rows, the flags and the
\* files that were there before the remove()
C3_RemoveRestoreIdentity ==
    (last.op = "remove") =>
        \E after \in {RemoveThenRestore} :
            after.dataframe = before.dataframe /\ after.disk = before.disk

\* C3 amended: for every record none of whose rows carries a staging flag,
\* remove() followed by restore() on the same record gives back the rows,
\* the flags and the files that were there before the remove()
C3_RemoveRestoreIdentityUnstaged ==
    (/\ last.op = "remove"
     /\ \A r \in Rows(before.dataframe) :
            Belongs(r, last.UID) => ~Flagged(r)) =>
        \E after \in {RemoveThenRestore} :
            after.dataframe = before.dataframe /\ after.disk = before.disk

\* a record without staged rows was removed, next to staged rows of other
\* records, and a restore() of the record brings its rows back
C3_Witness ==
    /\ last.op = "remove" /\ generation(last.UID) >= 1
    /\ \E r \in Rows(before.dataframe) : Belongs(r, last.UID)
    /\ \A r \in Rows(before.dataframe) : Belongs(r, last.UID) => ~Flagged(r)
    /\ \E r \in Rows(before.dataframe) : Flagged(r)
    /\ \A r \in Rows(dataframe) : Belongs(r, last.UID) => r.removed
    /\ RemoveThenRestore.dataframe = before.dataframe

\* the files of the rows that the last call, a save(), promoted from created
PromotedBySave ==
    {r.file : r \in {x \in Rows(before.dataframe) :
        (last.UID = <<>> \/ Belongs(x, last.UID)) /\ x.created /\ ~x.removed}}

\* the files of the rows that the last call, a save(), dropped
DroppedBySave ==
    {r.file : r \in {x \in Rows(before.dataframe) :
        (last.UID = <<>> \/ Belongs(x, last.UID)) /\ x.removed}}

\* C4: after save(), a restore() on the same record or on the database keeps
\* every row that the save promoted from created, unchanged and with its
\* file, and brings back no row or file that the save dropped
C4_RestoreAfterSaveKeepsCommit ==
    (last.op = "save") =>
        \A R \in {last.UID, <<>>} :
            LET after == restoreState(dataframe, disk, R)
            IN  /\ \A r \in Rows(dataframe) :
                      r.file \in PromotedBySave =>
                          r \in Rows(after.dataframe) /\ r.file \in after.disk
                /\ PromotedBySave \subseteq Files(dataframe)
                /\ DroppedBySave \cap Files(after.dataframe) = {}
                /\ DroppedBySave \cap after.disk = {}

\* a save() has promoted created rows and dropped removed rows
C4_Witness ==
    /\ last.op = "save"
    /\ PromotedBySave # {}
    /\ DroppedBySave # {}

\* C5: remove() sets removed = TRUE on exactly the rows of the record that
\* were not removed, changes nothing else in any row, drops no row and
\* deletes no file
C5_RemoveFlagsOnlyOwnRows ==
    (last.op = "remove") =>
        /\ Len(dataframe) = Len(before.dataframe)
        /\ \A i \in DOMAIN before.dataframe :
              dataframe[i] =
                  IF Belongs(before.dataframe[i], last.UID)
                     /\ ~before.dataframe[i].removed
                  THEN [before.dataframe[i] EXCEPT !.removed = TRUE]
                  ELSE before.dataframe[i]
        /\ disk = before.disk

\* a record was removed next to rows of other records
C5_Witness ==
    /\ last.op = "remove"
    /\ \E i \in DOMAIN before.dataframe :
          /\ Belongs(before.dataframe[i], last.UID)
          /\ ~before.dataframe[i].removed
          /\ dataframe[i].removed
    /\ \E r \in Rows(dataframe) : ~Belongs(r, last.UID) /\ ~r.removed

\* C6: no row of the index is flagged created and removed at the same time
C6_CreatedRemovedExclusive ==
    \A r \in Rows(dataframe) : ~(r.created /\ r.removed)

\* C7: remove() drops the rows of the record that are flagged created from
\* the index, and sets removed = TRUE only on rows that are not flagged
\* created
C7_RemoveDropsCreatedRows ==
    (last.op = "remove") =>
        /\ \A r \in Rows(before.dataframe) :
              (Belongs(r, last.UID) /\ r.created /\ ~r.removed) =>
                  r.file \notin Files(dataframe)
        /\ \A r \in Rows(dataframe) :
              (r.removed /\ r.file \notin RemovedFiles(before.dataframe)) =>
                  ~r.created

\* C8: no two rows of the index carry the same (PatientID,
\* StudyInstanceUID, SeriesInstanceUID, SOPInstanceUID) tuple
C8_UIDTuplesUnique ==
    \A i, j \in DOMAIN dataframe :
        i # j => RowUID(dataframe[i], 4) # RowUID(dataframe[j], 4)

\* the rows the last call appended to the index
Appended == SubSeq(dataframe, Len(before.dataframe) + 1, Len(dataframe))

\* the rows of the record of the last call that were not removed when the
\* call started, in index order
Source ==
    SelectSeq(before.dataframe,
              LAMBDA r : Belongs(r, last.UID) /\ ~r.removed)

ColumnValues(df, k) == {df[i][k] : i \in DOMAIN df}

\* C9: copy_to of a Series to a Study appends one row per instance of the
\* series, with the PatientID and StudyInstanceUID of the Study, a
\* SeriesInstanceUID that no row of the index had (the source's included)
\* and a SOPInstanceUID that no row of the index had
C9_SeriesCopyRekeyed ==
    (last.op = "copy_to" /\ generation(last.UID) = 3
                         /\ generation(last.arg) = 2) =>
        /\ Len(Appended) = Len(Source)
        /\ \A i \in DOMAIN Appended :
              /\ Appended[i].PatientID = last.arg[1]
              /\ Appended[i].StudyInstanceUID = last.arg[2]
              /\ Appended[i].SeriesInstanceUID # last.UID[3]
              /\ Appended[i].SeriesInstanceUID \notin
                    ColumnValues(before.dataframe, "SeriesInstanceUID")
              /\ Appended[i].SOPInstanceUID \notin
                    ColumnValues(before.dataframe, "SOPInstanceUID")

\* a series with three instances was copied to its study
C9_Witness ==
    /\ last.op = "copy_to" /\ generation(last.UID) = 3
    /\ generation(last.arg) = 2
    /\ Len(Appended) = 3

\* C10 as stated: every row of the copy of a Patient carries the
\* StudyInstanceUID, SeriesInstanceUID and SOPInstanceUID of the row it was
\* copied from, and the PatientID of the destination
C10_PatientCopyKeepsUIDs ==
    (last.op = "copy_to" /\ generation(last.UID) = 1) =>
        /\ Len(Appended) = Len(Source)
        /\ \A i \in DOMAIN Appended :
              /\ Appended[i].PatientID = last.ret[1]
              /\ Appended[i].StudyInstanceUID = Source[i].StudyInstanceUID
              /\ Appended[i].SeriesInstanceUID = Source[i].SeriesInstanceUID
              /\ Appended[i].SOPInstanceUID = Source[i].SOPInstanceUID

\* C10 amended: every row of the copy of a Patient carries the PatientID of
\* the destination and a StudyInstanceUID, a SeriesInstanceUID and a
\* SOPInstanceUID that differ from those of the row it was copied from and
\* from every identifier the index held
C10_PatientCopyRekeysUIDs ==
    (last.op = "copy_to" /\ generation(last.UID) = 1) =>
        /\ Len(Appended) = Len(Source)
        /\ \A i \in DOMAIN Appended :
              /\ Appended[i].PatientID = last.ret[1]
              /\ Appended[i].StudyInstanceUID # Source[i].StudyInstanceUID
              /\ Appended[i].SeriesInstanceUID # Source[i].SeriesInstanceUID
              /\ Appended[i].SOPInstanceUID # Source[i].SOPInstanceUID
              /\ Appended[i].StudyInstanceUID \notin UIDsOf(before.dataframe)
              /\ Appended[i].SeriesInstanceUID \notin UIDsOf(before.dataframe)
              /\ Appended[i].SOPInstanceUID \notin UIDsOf(before.dataframe)

\* a patient with two studies was copied
C10_Witness ==
    /\ last.op = "copy_to" /\ generation(last.UID) = 1
    /\ Cardinality(ColumnValues(Source, "StudyInstanceUID")) = 2
    /\ Len(Appended) = 2

\* C11: move_to(ancestor) copies first and flags the source afterwards: the
\* n source rows stay in the index, now flagged removed, with their files on
\* disk; n new rows flagged created, with new files, carry the ancestor's
\* identifiers (there would be none had the source been flagged first); and
\* a save() of the database then keeps the n moved rows and their files and
\* none of the source rows or source files
C11_MoveCopiesThenRemoves ==
    (last.op = "move_to") =>
        /\ Len(Appended) = Len(Source)
        /\ \A i \in DOMAIN before.dataframe :
              /\ dataframe[i] =
                    IF Belongs(before.dataframe[i], last.UID)
                       /\ ~before.dataframe[i].removed
                    THEN [before.dataframe[i] EXCEPT !.removed = TRUE]
                    ELSE before.dataframe[i]
              /\ dataframe[i].file \in disk <=>
                    before.dataframe[i].file \in before.disk
        /\ \A i \in DOMAIN Appended :
              /\ Appended[i].created /\ ~Appended[i].removed
              /\ RowUID(Appended[i], Len(last.arg)) = last.arg
              /\ Appended[i].file \in disk
              /\ Appended[i].file \notin Files(before.dataframe)
        /\ \E after \in {saveState(dataframe, disk, <<>>)} :
              /\ \A i \in DOMAIN Appended :
                    /\ [Appended[i] EXCEPT !.created = FALSE]
                          \in Rows(after.dataframe)
                    /\ Appended[i].file \in after.disk
              /\ \A i \in DOMAIN Source :
                    /\ Source[i].file \notin Files(after.dataframe)
                    /\ Source[i].file \notin after.disk

\* C12: merge_with(obj) on a record of generation G >= 1 appends one row
\* per non-removed source row; the row carries obj.UID in its first G
\* identifiers, identifiers the index did not hold in the levels below G,
\* and obj's value in the cached column of every pending attribute that is
\* cached; the file written for the row holds the row's identifiers and
\* every pending attribute of obj; the call returns obj
C12_MergeStampsObj ==
    (last.op = "merge_with" /\ generation(last.UID) >= 1) =>
        /\ Len(Appended) = Len(Source)
        /\ last.ret = last.arg.UID
        /\ \A i \in DOMAIN Appended :
              /\ RowUID(Appended[i], generation(last.UID)) = last.arg.UID
              /\ \A c \in (generation(last.UID) + 1) .. 4 :
                    Appended[i][Columns[c]] \notin UIDsOf(before.dataframe)
              /\ \A k \in DOMAIN last.arg.attributes :
                    /\ datasets[Appended[i].file][k] = last.arg.attributes[k]
                    /\ k \in CachedColumns =>
                          Appended[i][k] = last.arg.attributes[k]
              /\ \A c \in 1..4 :
                    datasets[Appended[i].file][Columns[c]] =
                        Appended[i][Columns[c]]

\* a series of which one instance was removed is merged onto a record that
\* holds a cached and an uncached pending attribute
C12_Witness ==
    /\ last.op = "merge_with" /\ generation(last.UID) = 3
    /\ Cardinality(DOMAIN last.arg.attributes) = 2
    /\ \E r \in Rows(before.dataframe) : Belongs(r, last.UID) /\ r.removed
    /\ Len(Appended) = 2
    /\ \A i \in DOMAIN Appended :
          Appended[i].StudyDescription # Source[i].StudyDescription

\* C13: no two rows of the index share a relative file path, whatever
\* their staging flags; every row a copy appends has a path that no row of
\* the index had and that no other row of the copy has
C13_FilePathsUnique ==
    /\ \A i, j \in DOMAIN dataframe :
          i # j => dataframe[i].file # dataframe[j].file
    /\ last.op \in {"copy_to", "merge_with", "move_to"} =>
          \A i \in DOMAIN Appended :
              Appended[i].file \notin Files(before.dataframe)

\* several rows were copied into an index that held rows staged removed
\* and rows staged created
C13_Witness ==
    /\ last.op \in {"copy_to", "merge_with", "move_to"}
    /\ Len(Appended) >= 2
    /\ \E r \in Rows(before.dataframe) : r.removed
    /\ \E r \in Rows(before.dataframe) : r.created

\* C14: in every state each SOPInstanceUID occurs under one
\* SeriesInstanceUID, each SeriesInstanceUID under one StudyInstanceUID and
\* each StudyInstanceUID under one PatientID, and for the record of every
\* call data(), which selects by the record's last identifier, returned the
\* non-removed rows that carry the record's full UID tuple
C14_HierarchyInvariant ==
    /\ \A r, x \in Rows(dataframe) :
          \A g \in 2..4 :
              r[Columns[g]] = x[Columns[g]] =>
                  r[Columns[g - 1]] = x[Columns[g - 1]]
    /\ last.op # "open" =>
          data(before.dataframe, last.UID) =
              SelectSeq(before.dataframe,
                        LAMBDA r : Belongs(r, last.UID) /\ ~r.removed)

\* an index with two studies received the copy of a study and of an
\* instance of the other study
C14_Witness ==
    /\ calls = 2
    /\ last.op \in {"copy_to", "merge_with", "move_to"}
    /\ Len(dataframe) > Len(before.dataframe)
    /\ \E r \in Rows(before.dataframe) : r.created
    /\ Cardinality(ColumnValues(dataframe, "StudyInstanceUID")) >= 3
    /\ Cardinality(ColumnValues(dataframe, "SeriesInstanceUID")) >= 3

\* the non-removed rows of the index that carry the UID tuple of the record
\* of the last call, in index order
Own == SelectSeq(dataframe, LAMBDA r : Belongs(r, last.UID) /\ ~r.removed)

\* the place in Own of the first row with identifier id at level g
FirstAt(id, g) ==
    CHOOSE i \in DOMAIN Own :
        /\ Own[i][Columns[g]] = id
        /\ \A j \in 1..(i - 1) : Own[j][Columns[g]] # id

\* C15: children() of a record of generation G < 4 returns one record of
\* generation G+1 per distinct identifier of level G+1 among the record's
\* non-removed rows, none twice, each extending the record's UID tuple by
\* that identifier, in the order in which the identifiers first appear in
\* the index; children() of a record of generation 4 returns the empty list
C15_ChildrenDistinctOrdered ==
    (last.op = "children" /\ DOMAIN last.arg = {}) =>
        /\ last.ret.kind = "list"
        /\ generation(last.UID) = 4 => last.ret.value = <<>>
        /\ generation(last.UID) < 4 =>
              \E kids \in {last.ret.value} :
              \E g \in {generation(last.UID) + 1} :
                  /\ \A j \in DOMAIN kids :
                        /\ Len(kids[j]) = g
                        /\ SubSeq(kids[j], 1, g - 1) = last.UID
                  /\ \A j, k \in DOMAIN kids : j # k => kids[j] # kids[k]
                  /\ {kids[j][g] : j \in DOMAIN kids} =
                        {Own[i][Columns[g]] : i \in DOMAIN Own}
                  /\ \A j, k \in DOMAIN kids :
                        j < k => FirstAt(kids[j][g], g) < FirstAt(kids[k][g], g)

\* children() was asked of a record above the instances that has at least
\* two children and several rows under one of them
C15_Witness ==
    /\ last.op = "children" /\ DOMAIN last.arg = {}
    /\ generation(last.UID) < 3
    /\ Len(last.ret.value) >= 2
    /\ Len(Own) > Len(last.ret.value)

\* C16: instances() of a record of generation 0 to 3 returns a list with
\* one record of generation 4 per non-removed row of the record, and
\* instances() of a record of generation 4 returns a list of at most one
\* element, never None
C16_InstancesIsAList ==
    (last.op = "instances" /\ DOMAIN last.arg = {}) =>
        /\ last.ret.kind = "list"
        /\ generation(last.UID) = 4 => Len(last.ret.value) <= 1
        /\ generation(last.UID) < 4 =>
              /\ Len(last.ret.value) = Len(Own)
              /\ {last.ret.value[j] : j \in DOMAIN last.ret.value} =
                    {RowUID(Own[i], 4) : i \in DOMAIN Own}

\* the result of the last navigation call had it been made without
\* predicates
Unfiltered ==
    IF last.op = "children" THEN children(dataframe, last.UID, NoAttributes)
    ELSE IF last.op = "studies"
         THEN studies(dataframe, last.UID, NoAttributes).value
         ELSE series(dataframe, last.UID, NoAttributes).value

\* the first non-removed row of the index that belongs to the record
FirstRow(rec) ==
    dataframe[CHOOSE i \in DOMAIN dataframe :
                 /\ Belongs(dataframe[i], rec) /\ ~dataframe[i].removed
                 /\ \A j \in 1..(i - 1) :
                       ~(Belongs(dataframe[j], rec) /\ ~dataframe[j].removed)]

\* C17: children(), studies() and series() called with predicates return
\* the records of the result without predicates whose index row satisfies
\* every predicate, in the same order, and no other record
C17_FilterCorrect ==
    (last.op \in {"children", "studies", "series"}
        /\ last.ret.kind = "list") =>
        last.ret.value =
            SelectSeq(Unfiltered,
                      LAMBDA rec : \A k \in DOMAIN last.arg :
                                      FirstRow(rec)[k] = last.arg[k])

\* studies(StudyDescription = "MRI") was asked of a record with two
\* studies of which one has that description
C17_Witness ==
    /\ last.op = "studies" /\ DOMAIN last.arg = {"StudyDescription"}
    /\ Len(Unfiltered) = 2
    /\ Len(last.ret.value) = 1
    /\ FirstRow(last.ret.value[1]).StudyDescription = "MRI"

\* C18: write(dataset) on a record of generation G hands to the index, in
\* one call and in the order of the dataset, one instance per instance of
\* the dataset, that carries the first G identifiers of the record, the
\* identifiers of the dataset in the levels below G and every pending
\* attribute of the record; the index gets one new row and one new file per
\* instance, with these identifiers and this content
C18_WriteStamps ==
    (last.op = "write") =>
        /\ Len(last.ret) = Len(last.arg.dataset)
        /\ Len(Appended) = Len(last.arg.dataset)
        /\ \A i \in DOMAIN last.ret :
              /\ \A c \in 1..4 :
                    last.ret[i][Columns[c]] =
                        IF c <= generation(last.UID)
                        THEN last.UID[c]
                        ELSE last.arg.dataset[i][Columns[c]]
              /\ \A k \in DOMAIN last.arg.attributes :
                    last.ret[i][k] = last.arg.attributes[k]
              /\ RowUID(Appended[i], 4) = RowUID(last.ret[i], 4)
              /\ Appended[i].file \notin before.disk
              /\ datasets[Appended[i].file] = last.ret[i]

\* a dataset of two instances of two series was written on a series that
\* holds a cached and an uncached pending attribute
C18_Witness ==
    /\ last.op = "write" /\ generation(last.UID) = 3
    /\ Cardinality(DOMAIN last.arg.attributes) = 2
    /\ Len(last.arg.dataset) = 2
    /\ last.arg.dataset[1].SeriesInstanceUID
          # last.arg.dataset[2].SeriesInstanceUID
    /\ \A i \in DOMAIN last.ret : last.ret[i] # last.arg.dataset[i]

\* the instances of the record of the last call and the datasets read from
\* them
Reread == read(dataframe, datasets, last.UID)

\* C19: after a dataset of N instances was written on a Series record,
\* instances() of the series returns N records, and reading them gives the
\* datasets that were written
C19_RoundTrip ==
    (last.op = "write" /\ generation(last.UID) = 3) =>
        /\ Len(instances(dataframe, last.UID, NoAttributes).value) =
              Len(last.arg.dataset)
        /\ Reread = last.ret

\* the last call left the index and the files as they were
Untouched == dataframe = before.dataframe /\ disk = before.disk

\* C20: navigation outside the generations a method is made for returns
\* nothing and leaves the index alone: children() of a record of generation
\* 4 returns the empty list, and new_sibling() at generation 0,
\* new_pibling() and new_cousin() at generation 0 or 1, patients() at
\* generation 1, studies() at generation 2, series() at generation 3 and
\* copy_to() and merge_with() at generation 0 return None
C20_OutOfRangeReturnsNothing ==
    /\ (last.op = "children" /\ generation(last.UID) = 4) =>
          last.ret = List(<<>>) /\ Untouched
    /\ (last.op = "new_sibling" /\ generation(last.UID) = 0) =>
          last.ret = None /\ Untouched
    /\ (last.op \in {"new_pibling", "new_cousin"}
            /\ generation(last.UID) <= 1) =>
          last.ret = None /\ Untouched
    /\ (last.op = "patients" /\ generation(last.UID) = 1) =>
          last.ret = None /\ Untouched
    /\ (last.op = "studies" /\ generation(last.UID) = 2) =>
          last.ret = None /\ Untouched
    /\ (last.op = "series" /\ generation(last.UID) = 3) =>
          last.ret = None /\ Untouched
    /\ (last.op \in {"copy_to", "merge_with"}
            /\ generation(last.UID) = 0) =>
          last.ret = None /\ Untouched

\* new_sibling() was asked of the database while the index held staged
\* rows
C20_Witness ==
    /\ last.op = "new_sibling" /\ generation(last.UID) = 0
    /\ last.ret = None
    /\ \E r \in Rows(dataframe) : r.created
    /\ nextUid > Max(UIDsOf(dataframe))

\* C26: a copy of a Patient or of a Study keeps the grouping of its
\* instances: two copied rows share the SeriesInstanceUID exactly when
\* their source rows did, and the StudyInstanceUID exactly when their
\* source rows did, so that the copy has as many studies and series as the
\* source
C26_CopyKeepsGrouping ==
    (last.op \in {"copy_to", "merge_with"}
        /\ generation(last.UID) \in {1, 2}
        /\ Len(Appended) = Len(Source)) =>
        /\ \A i, j \in DOMAIN Appended :
              \A k \in {"StudyInstanceUID", "SeriesInstanceUID"} :
                  (Appended[i][k] = Appended[j][k]) <=>
                      (Source[i][k] = Source[j][k])
        /\ \A k \in {"StudyInstanceUID", "SeriesInstanceUID"} :
              Cardinality(ColumnValues(Appended, k)) =
                  Cardinality(ColumnValues(Source, k))

\* the row lies outside the record of the last call: its identifier at the
\* record's level is not the record's last identifier
Outside(r) == r[Columns[generation(last.UID)]] # last.UID[Len(last.UID)]

\* C28: save() and restore() on a record of generation G >= 1 act on the
\* rows with the record's G-level identifier only: the rows outside the
\* record stay in the index in the same order with the same flags and with
\* their files, and every file deleted is the file of a row of the record
C28_SaveRestoreScoped ==
    (last.op \in {"save", "restore"} /\ generation(last.UID) >= 1) =>
        /\ SelectSeq(dataframe, Outside) =
              SelectSeq(before.dataframe, Outside)
        /\ \A r \in Rows(before.dataframe) :
              Outside(r) => (r.file \in disk <=> r.file \in before.disk)
        /\ \A f \in before.disk \ disk :
              \E r \in Rows(before.dataframe) : r.file = f /\ ~Outside(r)
        /\ disk \subseteq before.disk

\* a record below the database was saved or restored, which changed the
\* index, while rows outside the record were staged
C28_Witness ==
    /\ last.op \in {"save", "restore"} /\ generation(last.UID) >= 1
    /\ dataframe # before.dataframe
    /\ \E r \in Rows(dataframe) : Outside(r) /\ Flagged(r)

\* C29: without I/O failures the index and the disk stay consistent: in
\* every state every row of the index, staged or not, has its file on disk
\* and every file on disk has a row, and after a save() or restore() of the
\* database no file of a row that the call dropped is left on disk
C29_IndexDiskConsistent ==
    /\ \A r \in Rows(dataframe) : r.file \in disk
    /\ \A f \in disk : \E r \in Rows(dataframe) : r.file = f
    /\ (last.op \in {"save", "restore"} /\ last.UID = <<>>) =>
          \A r \in Rows(before.dataframe) :
              r.file \notin Files(dataframe) => r.file \notin disk

\* the database was saved or restored after a call that staged rows, and
\* files were deleted
C29_Witness ==
    /\ calls = 2
    /\ last.op \in {"save", "restore"} /\ last.UID = <<>>
    /\ before.disk \ disk # {}
    /\ dataframe # <<>>

\* the record of the last call was created in this session: it had rows
\* before the call and all of them were staged created
CreatedRecord ==
    /\ \E r \in Rows(before.dataframe) : Belongs(r, last.UID)
    /\ \A r \in Rows(before.dataframe) : Belongs(r, last.UID) => r.created

\* the rows and the files of the record of the last call are gone from the
\* index and from the disk of the state after
Gone(after) ==
    /\ \A r \in Rows(after.dataframe) : ~Belongs(r, last.UID)
    /\ \A r \in Rows(before.dataframe) :
          Belongs(r, last.UID) => r.file \notin after.disk

\* C30: when a record that copy_to or merge_with created is removed before
\* any save, a following save() of the database leaves none of its rows in
\* the index and none of its files on disk, and so does a following
\* restore() of the database
C30_CreatedThenRemovedLeavesNothing ==
    (last.op = "remove" /\ generation(last.UID) >= 1 /\ CreatedRecord) =>
        /\ Gone(saveState(dataframe, disk, <<>>))
        /\ Gone(restoreState(dataframe, disk, <<>>))

\* the copy of a record was removed in the call after the one that made it
C30_Witness ==
    /\ calls = 2
    /\ last.op = "remove" /\ generation(last.UID) >= 1
    /\ CreatedRecord
    /\ \E r \in Rows(dataframe) :
          Belongs(r, last.UID) /\ r.created /\ r.removed
    /\ \E r \in Rows(dataframe) : ~Flagged(r)

\* C27: restore() of the database undoes a whole session: as long as
\* nothing is saved, after any sequence of copy_to, move_to, merge_with and
\* remove calls a restore() of the database gives the index of the start of
\* the session, with no flag set, and its files; this holds of the restore()
\* that could be called in the state and of the one that was called
C27_RestoreUndoesSession ==
    /\ \E db \in InitialDatabases :
          restoreState(dataframe, disk, <<>>) =
              [dataframe |-> db, disk |-> Files(db)]
    /\ last.op = "restore" =>
          /\ dataframe \in InitialDatabases
          /\ disk = Files(dataframe)
          /\ datasets = DataSetsOf(dataframe)

\* the database was restored after a call that had both appended rows and
\* flagged rows removed
C27_Witness ==
    /\ last.op = "restore"
    /\ \E r \in Rows(before.dataframe) : r.created
    /\ \E r \in Rows(before.dataframe) : r.removed
    /\ Cardinality(before.disk) > Cardinality(disk)

\* the files that the save() or restore() of the last call had to delete
ToDelete ==
    IF last.op = "save"
    THEN RemovedFiles(selection(before.dataframe, last.UID))
    ELSE CreatedFiles(selection(before.dataframe, last.UID))

\* os.remove failed during the save() or restore() of the last call
DeletionFailed ==
    /\ last.op \in {"save", "restore"}
    /\ last.arg \in ToDelete \cap before.disk

\* C21: when a file cannot be deleted during save() or restore(), the call
\* raises, and the index row of that file is in the index afterwards with
\* the flags it had before the call
C21_FailedDeletionKeepsRow ==
    DeletionFailed =>
        /\ last.ret = Raised("OSError")
        /\ \A r \in Rows(before.dataframe) :
              r.file = last.arg => r \in Rows(dataframe)
        /\ last.arg \in disk

\* a save() raised on a file after it had deleted another one
C21_Witness ==
    /\ DeletionFailed /\ last.op = "save"
    /\ last.ret = Raised("OSError")
    /\ before.disk \ disk # {}
    /\ \E r \in Rows(dataframe) : r.file = last.arg /\ r.removed

\* the rows of the record of the last call whose files could be read
Readable ==
    SelectSeq(Source, LAMBDA r : r.file # last.arg /\ r.file \in before.disk)

\* C23: bulk operations go on past a file that fails: when one file cannot
\* be deleted during save() or restore(), the other files are deleted and
\* their rows committed, and when one source file cannot be read during
\* copy_to, the other rows are copied and appended to the index
C23_BulkContinuesPastFailure ==
    /\ DeletionFailed =>
          /\ disk \cap (ToDelete \ {last.arg}) = {}
          /\ Files(dataframe) \cap (ToDelete \ {last.arg}) = {}
    /\ (last.op = "copy_to" /\ generation(last.UID) >= 1
            /\ last.arg \in Files(Source)) =>
          /\ Len(Appended) = Len(Readable)
          /\ Files(Appended) \subseteq disk

\* C25: every function of api.py that opens a database closes it exactly
\* once before control is back with the caller, also when the method it
\* delegates to raises: when a call that opened a database is over, that
\* database was closed once and no session is left open
C25_FacadeClosesOnce ==
    (api.pc = "idle" /\ api.opened) =>
        /\ api.closes = 1
        /\ api.sessions = 0

\* C22: set_array() with an array whose number of slices is not the number
\* of elements of the header dataset raises ValueError before anything is
\* touched: no series is created, the index has the rows and the flags it
\* had, and the disk has the files it had, with their contents
C22_MismatchTouchesNothing ==
    [][(last'.op = "set_array"
           /\ last'.arg.slices # Len(data(dataframe, last'.UID))) =>
           /\ last'.ret = Raised("ValueError")
           /\ UNCHANGED <<dataframe, disk, datasets, nextUid, nextFile>>]_vars

\* set_array() was called with two slices on a series of which two
\* instances had been removed
C22_Witness ==
    /\ last.op = "set_array"
    /\ generation(last.UID) = 3
    /\ last.arg.slices = 2
    /\ Len(data(before.dataframe, last.UID)) = 1
    /\ last.ret = Raised("ValueError")

\* C24: whatever two records held on one folder have done, in whatever
\* order, each of them reads the index as the calls made through both have
\* left it: the table it reads, and so its data(), the records below it and
\* its files, are those of the one index, also when the last call replaced
\* the table object of the folder
C24_HeldRecordsShareIndex ==
    \A h \in DOMAIN heap.held :
        /\ Table(heap, h) = dataframe
        /\ data(Table(heap, h), heap.held[h].UID)
               = data(dataframe, heap.held[h].UID)

\* two records are held, the one made a copy, which replaced the table
\* object, and the other reads rows of that copy
C24_Witness ==
    /\ Len(heap.held) = 2
    /\ last.op = "copy_to"
    /\ Len(heap.tables) > 1
    /\ \E o \in DOMAIN heap.held :
          /\ o # last.arg.held
          /\ \E i \in DOMAIN data(Table(heap, o), heap.held[o].UID) :
                 /\ data(Table(heap, o), heap.held[o].UID)[i].created
                 /\ data(Table(heap, o), heap.held[o].UID)[i].file
                        \notin Files(before.dataframe)

\* the rows of the index df with the whole UID tuple of the record that
\* are not flagged removed
Live(df, UID) == SelectSeq(df, LAMBDA r : Belongs(r, UID) /\ ~r.removed)

\* what C31 asks of a call of copy_to or merge_with: as many rows appended
\* as the record had rows not removed, each created, not removed and with a
\* file of its own that was not there, and every row and every file that
\* was there left as it was
CopyFrame ==
    /\ Len(dataframe') = Len(dataframe) + Len(Live(dataframe, last'.UID))
    /\ SubSeq(dataframe', 1, Len(dataframe)) = dataframe
    /\ \A i \in (Len(dataframe) + 1)..Len(dataframe') :
          /\ dataframe'[i].created
          /\ ~dataframe'[i].removed
          /\ dataframe'[i].file \notin disk \cup Files(dataframe)
          /\ dataframe'[i].file \in disk'
          /\ \A j \in (Len(dataframe) + 1)..Len(dataframe') :
                 dataframe'[j].file = dataframe'[i].file => j = i
    /\ \A f \in disk : f \in disk' /\ datasets'[f] = datasets[f]

\* C31 as stated: copy_to and merge_with on any record, the database
\* included, append one row per row of the record that is not removed and
\* leave the rows and files that were there as they were
C31_CopyFrameAnyRecord ==
    [][last'.op \in {"copy_to", "merge_with"} => CopyFrame]_vars

\* C31: copy_to and merge_with on a record of generation 1 to 4 append as
\* many rows as the record has rows not flagged removed, each flagged
\* created and not removed and with a new file of its own, and leave every
\* row that was in the index (rows of the source and rows staged removed
\* included) and every file that was on disk, with its contents, unchanged
C31_CopyFrame ==
    [][(last'.op \in {"copy_to", "merge_with"}
           /\ generation(last'.UID) >= 1) => CopyFrame]_vars

\* a record of which one row was staged removed and another was not has
\* been copied
C31_Witness ==
    /\ last.op \in {"copy_to", "merge_with"}
    /\ generation(last.UID) >= 1
    /\ \E i \in DOMAIN before.dataframe :
          Belongs(before.dataframe[i], last.UID)
              /\ before.dataframe[i].removed
    /\ Len(dataframe) > Len(before.dataframe)

\* C32: copy_to is all or nothing: when a source file cannot be read part
\* of the way through a record, the index is as it was before the call and
\* the disk holds no file that the call wrote, so that no file is without a
\* row of the index
C32_CopyAllOrNothing ==
    (last.op = "copy_to" /\ last.ret = Raised("OSError")) =>
        /\ dataframe = before.dataframe
        /\ disk = before.disk
        /\ disk \subseteq Files(dataframe)

\* C34: data() of a record returns no row flagged removed and, for a
\* record of generation 1 to 4, only rows that belong to the record,
\* whether the folder has a path or is in memory
C34_DataCurrentOwnRows ==
    last.op = "data" =>
        \A i \in DOMAIN last.ret.value :
            /\ ~last.ret.value[i].removed
            /\ generation(last.UID) >= 1
                  => Belongs(last.ret.value[i], last.UID)

\* the records in a list of records
Among(objects) == {objects[i] : i \in DOMAIN objects}

\* C33: a removal shows in navigation at once, before any save: after
\* remove() on a record its data() and files are empty, children() and
\* instances() return no record, the record is not among the children()
\* of its parent, a second remove() leaves the index as it is, and
\* copy_to of the record, to any ancestor it had, appends no row
C33_RemovalVisibleAtOnce ==
    last.op = "remove" =>
        /\ data(dataframe, last.UID) = <<>>
        /\ files(dataframe, last.UID) = <<>>
        /\ children(dataframe, last.UID, NoAttributes) = <<>>
        /\ instances(dataframe, last.UID, NoAttributes).value = <<>>
        /\ generation(last.UID) >= 1 =>
              last.UID \notin Among(children(dataframe, parent(last.UID),
                                             NoAttributes))
        /\ removeRows(dataframe, last.UID) = dataframe
        /\ generation(last.UID) >= 1 =>
              \A ancestor \in Ancestors(before.dataframe, last.UID) :
                  _merge_with(dataframe, disk, datasets, last.UID,
                              Record__init__(ancestor,
                                             ClassGeneration(last.UID),
                                             nextUid),
                              NoAttributes, nextUid + 4, nextFile).dataframe
                      = dataframe

\* a study that held a copied series next to a series of the committed
\* index has been removed
C33_Witness ==
    /\ last.op = "remove"
    /\ generation(last.UID) = 2
    /\ \E i, j \in DOMAIN before.dataframe :
          /\ Belongs(before.dataframe[i], last.UID)
          /\ Belongs(before.dataframe[j], last.UID)
          /\ before.dataframe[i].created /\ ~before.dataframe[i].removed
          /\ ~before.dataframe[j].created /\ ~before.dataframe[j].removed

\* C35: navigation upwards returns the ancestor of the level asked for:
\* patients() of a record of generation 2, 3 or 4 returns its patient,
\* studies() of a record of generation 3 or 4 its study and series() of a
\* record of generation 4 its series
C35_UpwardNavigation ==
    /\ (last.op = "patients" /\ generation(last.UID) >= 2) =>
          last.ret = Single(SubSeq(last.UID, 1, 1))
    /\ (last.op = "studies" /\ generation(last.UID) >= 3) =>
          last.ret = Single(SubSeq(last.UID, 1, 2))
    /\ (last.op = "series" /\ generation(last.UID) >= 4) =>
          last.ret = Single(SubSeq(last.UID, 1, 3))

\* what the navigation call of the last step returns when it is made
\* with the same predicates and without an index
Listed ==
    IF last.op = "children"
    THEN List(children(dataframe, last.UID, last.arg.kwargs))
    ELSE IF last.op = "instances"
    THEN instances(dataframe, last.UID, last.arg.kwargs)
    ELSE IF last.op = "patients"
    THEN patients(dataframe, last.UID, last.arg.kwargs)
    ELSE IF last.op = "studies"
    THEN studies(dataframe, last.UID, last.arg.kwargs)
    ELSE series(dataframe, last.UID, last.arg.kwargs)

\* C36: children, instances, patients, studies and series called with an
\* index i, at a generation where they return a list, return the i-th
\* record of the list that the same predicates select when i is smaller
\* than its length, and None when it is not; they never raise
C36_IndexInRangeOrNone ==
    (last.op \in {"children", "instances", "patients", "studies", "series"}
        /\ Listed.kind = "list"
        /\ ~(last.op = "children" /\ generation(last.UID) = 4)) =>
        /\ last.arg.index < Len(Listed.value)
              => last.ret = Single(Listed.value[last.arg.index + 1])
        /\ last.arg.index >= Len(Listed.value) => last.ret = None

\* C37: set_array on a series with n instances and an array of n slices:
\* with inplace the instances of the series that are not removed are the n
\* instances just written and the n instances it had are staged removed;
\* without inplace the series has the n instances it had and the n new
\* ones, none of them removed
C37_SetArrayInPlaceOrAdded ==
    (last.op = "set_array" /\ generation(last.UID) = 3
        /\ last.ret.kind = "record") =>
        /\ Len(Appended) = Len(Source)
        /\ last.arg.inplace =>
              /\ Files(Live(dataframe, last.UID)) = Files(Appended)
              /\ \A i \in DOMAIN dataframe :
                    dataframe[i].file \in Files(Source)
                        => dataframe[i].removed
        /\ ~last.arg.inplace =>
              Files(Live(dataframe, last.UID))
                  = Files(Source) \cup Files(Appended)

\* C38: create.series gives the series it creates the keyword attributes
\* it was called with, whether in_study is given, only in_database is
\* given or neither is, and with a dtype other than 'mri' and 'MRImage' it
\* raises ValueError without having created anything
C38_CreateSeriesAssignsKwargs ==
    last.op = "create.series" =>
        IF last.arg.dtype \in {"mri", "MRImage"}
        THEN /\ last.ret.kind = "record"
             /\ last.ret.value.attributes = last.arg.kwargs
        ELSE /\ last.ret = Raised("ValueError")
             /\ last.arg.made = {}
             /\ Untouched

====
